---- MODULE Spec2Model ----
(***************************************************************************)
(* The audio ingestion and transcription route of ZhaiYao                  *)
(* (POST /transcription): source selection, video conversion, validation,  *)
(* object-store upload or link, optimisation, segmentation, the bounded    *)
(* worker pool of transcribeSegments and the guarded history record.       *)
(*                                                                         *)
(* A request is a sequence of steps separated by the awaits of the         *)
(* handler; requests interleave at those awaits.  Strings that the code    *)
(* inspects are sequences: a file name is the sequence of its dot-         *)
(* separated parts, a MIME type the pair <<major, minor>>, a transcript a  *)
(* sequence of characters.                                                 *)
(*                                                                         *)
(* Further specifications over the same variables: SummarizeSpec, the      *)
(* request of POST /summarize with its local fallback; HealthSpec, the     *)
(* health checks GET /transcription/health and GET /summarize/health;      *)
(* KeySpec, buildObjectKey on file names given character by character;     *)
(* SignSpec, the canonical string and the signature of uploadToOSS;        *)
(* AnySettingSpec, the route with AUDIO_SEGMENT_CONCURRENCY a number or    *)
(* not; SegmentSpec, segmentAudioFile with its temporary directory;        *)
(* ExtractSpec, extractApimartTranscript on the bodies of the speech API;  *)
(* DispatchSpec, transcribeSegments with every sent request answered.      *)
(***************************************************************************)
EXTENDS Integers, Sequences, FiniteSets, TLC

(* ------------------------------------------------------------------ *)
(* Bounds of the model                                                  *)
(* ------------------------------------------------------------------ *)
MaxSegments == 3
MaxConcurrency == 2
MaxSentences == 16
MaxNameLen == 3

Reqs == {1, 2}

(* ------------------------------------------------------------------ *)
(* Program constants                                                    *)
(* ------------------------------------------------------------------ *)
MB == 1024 * 1024
MAX_FILE_SIZE == 50 * MB
AUDIO_OPTIMIZATION_THRESHOLD == 15 * MB
AUDIO_SEGMENT_MIN_SIZE == 18 * MB
AUDIO_FILE_EXTENSIONS == {"mp3", "m4a", "wav", "flac", "aac", "ogg", "wma", "webm"}
VIDEO_FILE_EXTENSIONS == {"mp4", "mkv", "mov", "avi", "flv", "webm"}
REQUIRED_ENV_VARS ==
  {"APIMART_API_KEY", "OSS_REGION", "OSS_BUCKET", "OSS_ACCESS_KEY_ID",
   "OSS_ACCESS_KEY_SECRET"}

(* Error messages of the route (ASCII renderings of the source's texts). *)
MsgMissingEnv == "missing required environment variables"
MsgNoFile == "please upload an audio file or provide an audio link"
MsgNotAudio == "only audio files are supported"
MsgTooLarge == "file exceeds the 50MB limit"
MsgUploadFailed == "audio upload failed"
MsgFetchFailed == "cannot download the audio link"
MsgNoAudioInVideo == "cannot extract audio from the video"
MsgApimartFailed == "Apimart Whisper request failed"
MsgNoText == "Apimart Whisper returned no text"
MsgMkdtemp == "ENOSPC: mkdtemp failed"

(* ------------------------------------------------------------------ *)
(* Files                                                                *)
(* ------------------------------------------------------------------ *)
NoFile == [name |-> <<>>, type |-> <<>>, size |-> 0, bytes |-> "null"]
NoUrl == [href |-> "", basename |-> <<>>, pathname |-> <<>>]

AudioMpeg == <<"audio", "mpeg">>

Sizes == {200 * 1024, 20 * MB, 60 * MB}
TranscodedSizes == {200 * 1024, 20 * MB}

UploadNames == {<<"talk", "mp3">>, <<"clip", "MP4">>, <<"rec", "webm">>, <<"notes", "txt">>}
UploadTypes == {AudioMpeg, <<"video", "mp4">>, <<>>}

UploadFiles ==
  {[name |-> n, type |-> t, size |-> s, bytes |-> "original"] :
     n \in UploadNames, t \in UploadTypes, s \in Sizes}

(* A fileUrl as new URL(value) parses it: href is the trimmed value, pathname *)
(* the path (still percent-encoded, split at its dots), basename the last    *)
(* non-empty segment of the path.                                            *)
RemoteUrls ==
  {[href |-> "https://cdn.example.com/rec/talk.mp3", basename |-> <<"talk", "mp3">>,
    pathname |-> <<"/rec/talk", "mp3">>],
   [href |-> "https://cdn.example.com/rec/my%20talk.mp3", basename |-> <<"my%20talk", "mp3">>,
    pathname |-> <<"/rec/my%20talk", "mp3">>],
   [href |-> "https://cdn.example.com/rec/50%.mp3", basename |-> <<"50%", "mp3">>,
    pathname |-> <<"/rec/50%", "mp3">>],
   [href |-> "https://cdn.example.com/", basename |-> <<>>, pathname |-> <<"/">>]}
RemoteTypes == {AudioMpeg, <<"video", "mp4">>, <<"application", "octet-stream">>}

BothFile == [name |-> <<"talk", "mp3">>, type |-> AudioMpeg, size |-> 200 * 1024,
             bytes |-> "original"]

(* The multipart forms a client may send: a file part, a fileUrl, both or none. *)
Forms ==
  {[fileEntry |-> f, remoteUrl |-> NoUrl] : f \in UploadFiles}
    \cup {[fileEntry |-> NoFile, remoteUrl |-> u] : u \in RemoteUrls}
    \cup {[fileEntry |-> BothFile, remoteUrl |-> u] : u \in RemoteUrls}
    \cup {[fileEntry |-> NoFile, remoteUrl |-> NoUrl]}

Lower(s) ==
  CASE s = "MP4" -> "mp4"
    [] s = "MP3" -> "mp3"
    [] OTHER -> s

Last(s) == s[Len(s)]
Front(s) == SubSeq(s, 1, Len(s) - 1)

(* /\.(ext|...)$/i on a name: the name has a dot and its last part is listed. *)
HasExtension(name, exts) == Len(name) >= 2 /\ Lower(Last(name)) \in exts

TypeMajor(type) == IF type = <<>> THEN "" ELSE type[1]

isAudioFile(file) ==
  \/ TypeMajor(file.type) = "audio"
  \/ HasExtension(file.name, AUDIO_FILE_EXTENSIONS)

isVideoFile(file) ==
  \/ TypeMajor(file.type) = "video"
  \/ HasExtension(file.name, VIDEO_FILE_EXTENSIONS)

ensureMp3Extension(name) ==
  IF Len(name) >= 2 /\ Lower(Last(name)) = "mp3" THEN name
  ELSE LET stem == IF Len(name) >= 2 /\ Last(name) # "" THEN Front(name) ELSE name
       IN  (IF stem = <<>> \/ stem = <<"">> THEN <<"audio">> ELSE stem) \o <<"mp3">>

(* decodeURIComponent on the pieces of the model's paths: %20 is a space, *)
(* a % that is not followed by two hex digits raises URIError.            *)
Malformed(piece) == piece \in {"50%", "rec/50%"}

PercentDecoded(piece) ==
  CASE piece = "my%20talk" -> "my talk"
    [] piece = "rec/my%20talk" -> "rec/my talk"
    [] OTHER -> piece

CanDecode(name) == \A i \in DOMAIN name : ~Malformed(name[i])

decodeURIComponent(name) == [i \in DOMAIN name |-> PercentDecoded(name[i])]

(* value.replace(/^\//, "") on the first piece of a path. *)
WithoutLeadingSlash(name) ==
  IF name = <<>> THEN name
  ELSE [name EXCEPT ![1] =
          CASE @ = "/" -> ""
            [] @ = "/rec/talk" -> "rec/talk"
            [] @ = "/rec/my%20talk" -> "rec/my%20talk"
            [] @ = "/rec/50%" -> "rec/50%"
            [] OTHER -> @]

getFilenameFromUrl(url) ==
  IF url.basename = <<>> \/ ~CanDecode(url.basename) THEN <<"remote-audio">>
  ELSE decodeURIComponent(url.basename)


(* ------------------------------------------------------------------ *)
(* The speech API's replies and transcribeWithApimart                   *)
(* ------------------------------------------------------------------ *)
(* A JSON field is the set of its string values: {} when the field is   *)
(* absent or not a string, {s} when it is the string s.                 *)
NoJson ==
  [null |-> FALSE, str |-> {}, text |-> {}, transcription |-> {}, result |-> {},
   data |-> [truthy |-> FALSE, str |-> {}, text |-> {}, transcription |-> {}, result |-> {}],
   choices |-> <<>>, isSegments |-> FALSE, segments |-> <<>>, message |-> ""]

Texts == {<<"h", "i">>, <<"U+9AD4">>}

SpeechReplies ==
  {[ok |-> TRUE, statusText |-> "OK", data |-> [NoJson EXCEPT !.text = {t}]] : t \in Texts}
    \cup {[ok |-> TRUE, statusText |-> "OK", data |-> [NoJson EXCEPT !.text = {<<>>}]],
          [ok |-> TRUE, statusText |-> "OK", data |-> NoJson],
          [ok |-> TRUE, statusText |-> "", data |-> [NoJson EXCEPT !.null = TRUE]],
          [ok |-> FALSE, statusText |-> "",
           data |-> [NoJson EXCEPT !.message = "quota exceeded"]],
          [ok |-> FALSE, statusText |-> "Internal Server Error",
           data |-> [NoJson EXCEPT !.null = TRUE]]}

TheString(field) == CHOOSE s \in field : TRUE

RECURSIVE JoinWith(_, _)
JoinWith(pieces, sep) ==
  IF pieces = <<>> THEN <<>>
  ELSE IF Len(pieces) = 1 THEN pieces[1]
  ELSE pieces[1] \o sep \o JoinWith(Tail(pieces), sep)

(* segment?.text || segment?.content *)
SegmentText(segment) ==
  IF segment.text # {} /\ TheString(segment.text) # <<>> THEN TheString(segment.text)
  ELSE IF segment.content # {} THEN TheString(segment.content)
  ELSE <<>>

RECURSIVE SegmentTexts(_)
SegmentTexts(segments) ==
  IF segments = <<>> THEN <<>>
  ELSE LET t == SegmentText(Head(segments))
       IN  (IF t = <<>> THEN <<>> ELSE <<t>>) \o SegmentTexts(Tail(segments))

extractApimartTranscript(data) ==
  IF data.null THEN <<>>
  ELSE IF data.str # {} THEN TheString(data.str)
  ELSE IF data.text # {} THEN TheString(data.text)
  ELSE IF data.transcription # {} THEN TheString(data.transcription)
  ELSE IF data.result # {} THEN TheString(data.result)
  ELSE IF data.data.truthy /\ data.data.str # {} THEN TheString(data.data.str)
  ELSE IF data.data.truthy /\ data.data.text # {} THEN TheString(data.data.text)
  ELSE IF data.data.truthy /\ data.data.transcription # {}
    THEN TheString(data.data.transcription)
  ELSE IF Len(data.choices) > 0 /\ data.choices[1].content # {}
    THEN TheString(data.choices[1].content)
  ELSE IF data.isSegments THEN JoinWith(SegmentTexts(data.segments), <<"\n">>)
  ELSE <<>>

convertTraditionalToSimplified(input) ==
  [i \in 1..Len(input) |-> IF input[i] = "U+9AD4" THEN "U+4F53" ELSE input[i]]

normalizeTranscriptText(text, simplify) ==
  IF text = <<>> THEN text
  ELSE IF ~simplify THEN text
  ELSE convertTraditionalToSimplified(text)

FirstTruthy(a, b, c) == IF a # "" THEN a ELSE IF b # "" THEN b ELSE c

transcribeWithApimartBareMessage(reply, simplify) ==
  IF ~reply.ok \/ reply.data.null
  THEN [threw |-> TRUE, transcript |-> <<>>,
        message |-> IF reply.data.null THEN "" ELSE reply.data.message]
  ELSE LET transcript == extractApimartTranscript(reply.data)
       IN  IF transcript = <<>>
           THEN [threw |-> TRUE, transcript |-> <<>>, message |-> MsgNoText]
           ELSE [threw |-> FALSE, message |-> "",
                 transcript |-> normalizeTranscriptText(transcript, simplify)]

(* The value or the exception of one transcribeWithApimart call, given the reply. *)
transcribeWithApimart(reply, simplify) ==
  IF ~reply.ok \/ reply.data.null
  THEN [threw |-> TRUE, transcript |-> <<>>,
        message |-> FirstTruthy(IF reply.data.null THEN "" ELSE reply.data.message,
                                reply.statusText, MsgApimartFailed)]
  ELSE LET transcript == extractApimartTranscript(reply.data)
       IN  IF transcript = <<>>
           THEN [threw |-> TRUE, transcript |-> <<>>, message |-> MsgNoText]
           ELSE [threw |-> FALSE, message |-> "",
                 transcript |-> normalizeTranscriptText(transcript, simplify)]


(* ------------------------------------------------------------------ *)
(* State                                                                *)
(* ------------------------------------------------------------------ *)
VARIABLES
  environ,            \* process.env: the variables that are set (with the value that matters)
  concurrencyEnv,     \* Number(process.env.AUDIO_SEGMENT_CONCURRENCY ?? 4)
  offered,            \* per request slot, the forms its client may send
  history,            \* rows of audio_uploads, in insertion order
  pc,                 \* per request: the await the handler is suspended at
  form,               \* formData of the request
  fileSource, file, transcriptionFile, convertedFromVideo, safeFilename,
  uploadResult, recordedHistory,
  optimizedFile, segmentedFiles,
  cursor, results, workers, pool,   \* transcribeSegments
  outcome,            \* what the pipeline returned or threw, before the history record
  response,           \* the HTTP response of the request
  calls,              \* per request: the outbound calls and subprocesses it has started
  putBody,            \* per request: the file sent in the object-store PUT
  replied,            \* per request and ordinal: the transcript the speech API gave for that segment
  faults,             \* per request: the external operations that have failed in it
  stages,             \* per request: the stages it has completed, in order
  summarize,          \* the request of POST /summarize: position, body, upstream call, response
  health,             \* the two health checks: position, links, probes made, response
  keygen,             \* one call of buildObjectKey: the file name, the locals, the key
  signing,            \* two calls of uploadToOSS: what each signs with, string and signature
  tempDirs,           \* per request: the directory mkdtemp made for it, and whether it exists
  extraction          \* one call of extractApimartTranscript: the body, the text returned

settingVars == <<environ, concurrencyEnv, offered, summarize, health, keygen, signing, extraction>>
procVars == <<settingVars, tempDirs>>
fileVars == <<form, fileSource, file, transcriptionFile, convertedFromVideo, safeFilename>>
mediaVars == <<optimizedFile, segmentedFiles>>
dispatchVars == <<cursor, results, workers, pool, replied>>
endVars == <<outcome, response>>
vars == <<environ, concurrencyEnv, offered, history, pc, form, fileSource, file,
          transcriptionFile, convertedFromVideo, safeFilename, uploadResult,
          recordedHistory, optimizedFile, segmentedFiles, cursor, results, workers,
          pool, outcome, response, calls, putBody, replied, faults, stages, summarize, health, keygen, signing, tempDirs, extraction>>

Max(a, b) == IF a >= b THEN a ELSE b
Min(a, b) == IF a <= b THEN a ELSE b

(* Module-level configuration of the route, read from process.env at load. *)
AUDIO_OPTIMIZATION_ENABLED == "AUDIO_OPTIMIZATION_ENABLED=false" \notin environ
AUDIO_SEGMENT_ENABLED == "AUDIO_SEGMENT_ENABLED=true" \in environ
AUDIO_SEGMENT_DURATION == IF "AUDIO_SEGMENT_DURATION=0" \in environ THEN 0 ELSE 600
(* Number(text) of a text that is no number.  The numbers of the model   *)
(* are naturals; NaN is the one value beside them.                      *)
NaN == 0 - 1

(* Math.max and Math.min: NaN when an argument is NaN. *)
MathMax(a, b) == IF a = NaN \/ b = NaN THEN NaN ELSE Max(a, b)
MathMin(a, b) == IF a = NaN \/ b = NaN THEN NaN ELSE Min(a, b)

(* Array.from({ length }): a length of NaN is a length of 0. *)
ToLength(length) == IF length = NaN THEN 0 ELSE length

AUDIO_SEGMENT_CONCURRENCY == MathMax(1, concurrencyEnv)
TRANSCRIPT_SIMPLIFY == "TRANSCRIPT_SIMPLIFY=true" \in environ

OptionalFlags ==
  {"DATABASE_URL", "DISABLE_AUDIO_UPLOAD_HISTORY=true", "AUDIO_SEGMENT_ENABLED=true",
   "AUDIO_OPTIMIZATION_ENABLED=false", "TRANSCRIPT_SIMPLIFY=true", "AUDIO_SEGMENT_DURATION=0"}

isHistoryEnabled ==
  IF "DISABLE_AUDIO_UPLOAD_HISTORY=true" \in environ THEN FALSE
  ELSE "DATABASE_URL" \in environ

MissingApiKeyOnly == {"APIMART_API_KEY"} \ environ

(* validateEnv: the required variables that are not set. *)
MissingEnv == REQUIRED_ENV_VARS \ environ

NoUpload == [set |-> FALSE, url |-> <<>>, key |-> <<>>]
NoOutcome == [status |-> 0, transcript |-> <<>>, error |-> ""]
NoResponse == [status |-> 0, transcript |-> <<>>, error |-> "", audioUrl |-> <<>>,
               objectKey |-> <<>>]
NoCalls == [fetch |-> 0, put |-> 0, speech |-> 0, spawn |-> 0, insert |-> 0, mkdtemp |-> 0,
            segmenter |-> 0]

(* A JSON value of the body: absent, a number or a string. *)
JsonAbsent == [kind |-> "absent", text |-> <<>>]
NoBody == [keys |-> {}, summary |-> <<>>, warning |-> "", source |-> "", error |-> ""]
NoChatReply ==
  [reached |-> FALSE, status |-> 0, json |-> FALSE, isNull |-> FALSE, error |-> {},
   content |-> [kind |-> "absent", text |-> <<>>, parts |-> <<>>]]

SummarizeIdle ==
  [pc |-> "idle", body |-> [json |-> FALSE, transcript |-> JsonAbsent, prompt |-> JsonAbsent],
   trimmedTranscript |-> <<>>, fetches |-> 0, upstream |-> NoChatReply, threw |-> FALSE,
   status |-> 0, responseBody |-> NoBody]

(* A LinkStatus of GET /transcription/health; issue is "" when the field is absent. *)
NoLink == [set |-> FALSE, ok |-> FALSE, issue |-> "", latency |-> FALSE]
LinkOk == [set |-> TRUE, ok |-> TRUE, issue |-> "", latency |-> TRUE]
LinkFailed(issue, latency) == [set |-> TRUE, ok |-> FALSE, issue |-> issue, latency |-> latency]

(* The two health checks before a request: the one of the transcription  *)
(* route (link) and the one of a chat provider (provider).               *)
(* A call of fetchWithTimeout before it is made: where the probe stands  *)
(* (fetching: awaiting fetch; reading: awaiting response.text()), its    *)
(* timer, whether the response was ok, whether PROBE_TIMEOUT_MS have     *)
(* passed since the call and whether the dependency had then completely  *)
(* answered, and whether the controller aborted the call.                *)
NoCall ==
  [pc |-> "idle", timer |-> "idle", responseOk |-> FALSE, elapsed |-> FALSE,
   unanswered |-> FALSE, aborted |-> FALSE]

HealthIdle ==
  [link |-> [pc |-> "idle", env |-> NoLink, oss |-> NoLink, apimart |-> NoLink,
             ok |-> FALSE, probes |-> 0,
             call |-> [p \in {"oss", "apimart"} |-> NoCall]],
   provider |-> [pc |-> "idle", apiKey |-> FALSE, probes |-> 0, status |-> 0,
                 keys |-> {}, ok |-> FALSE]]

(* buildObjectKey before its call: the name it is given, its locals, its result. *)
KeygenIdle == [pc |-> "idle", filename |-> <<>>, safeBase |-> <<>>, ext |-> <<>>, key |-> <<>>]

(* Two uploads before they are signed: what each signs with, what each computed. *)
NoSignature == [canonicalString |-> <<>>, signature |-> <<>>]

SigningIdle == [pc |-> "idle", a |-> <<>>, b |-> <<>>, first |-> NoSignature, second |-> NoSignature]

(* No directory: the name is 0, the names that mkdtemp gives start at 1. *)
NoDir == [name |-> 0, exists |-> FALSE, removals |-> 0]

(* extractApimartTranscript before its call. *)
ExtractionIdle == [pc |-> "idle", data |-> NoJson, transcript |-> <<>>]

(* The state of the process before any request has arrived. *)
Blank ==
  /\ history = <<>>
  /\ pc = [r \in Reqs |-> "idle"]
  /\ form = [r \in Reqs |-> [fileEntry |-> NoFile, remoteUrl |-> NoUrl]]
  /\ fileSource = [r \in Reqs |-> "upload"]
  /\ file = [r \in Reqs |-> NoFile]
  /\ transcriptionFile = [r \in Reqs |-> NoFile]
  /\ convertedFromVideo = [r \in Reqs |-> FALSE]
  /\ safeFilename = [r \in Reqs |-> <<"audio-file">>]
  /\ uploadResult = [r \in Reqs |-> NoUpload]
  /\ recordedHistory = [r \in Reqs |-> FALSE]
  /\ optimizedFile = [r \in Reqs |-> NoFile]
  /\ segmentedFiles = [r \in Reqs |-> <<>>]
  /\ cursor = [r \in Reqs |-> 0]
  /\ results = [r \in Reqs |-> <<>>]
  /\ workers = [r \in Reqs |-> <<>>]
  /\ pool = [r \in Reqs |-> "none"]
  /\ outcome = [r \in Reqs |-> NoOutcome]
  /\ response = [r \in Reqs |-> NoResponse]
  /\ calls = [r \in Reqs |-> NoCalls]
  /\ putBody = [r \in Reqs |-> NoFile]
  /\ replied = [r \in Reqs |-> <<>>]
  /\ faults = [r \in Reqs |-> {}]
  /\ stages = [r \in Reqs |-> <<>>]
  /\ tempDirs = [r \in Reqs |-> NoDir]

(* The workloads of the model: one request with any form, or two          *)
(* requests at the same time, each a small upload or an empty form.        *)
PairForms ==
  {[fileEntry |-> BothFile, remoteUrl |-> NoUrl], [fileEntry |-> NoFile, remoteUrl |-> NoUrl]}

Workloads ==
  {[r \in Reqs |-> IF r = 1 THEN Forms ELSE {}], [r \in Reqs |-> PairForms]}

(* The environments of the model: the deployment with history and          *)
(* segmentation on, the same with one optional setting changed, and the    *)
(* same with some required variables missing.                              *)
BaseFlags == {"DATABASE_URL", "AUDIO_SEGMENT_ENABLED=true"}
Toggle(flags, x) == IF x \in flags THEN flags \ {x} ELSE flags \cup {x}

Environments ==
  {REQUIRED_ENV_VARS \cup BaseFlags}
    \cup {REQUIRED_ENV_VARS \cup Toggle(BaseFlags, x) : x \in OptionalFlags}
    \cup {p \cup BaseFlags : p \in SUBSET REQUIRED_ENV_VARS}

Init ==
  /\ environ \in Environments
  /\ concurrencyEnv \in 0..MaxConcurrency
  /\ offered \in Workloads
  /\ Blank
  /\ summarize = SummarizeIdle
  /\ health = HealthIdle
  /\ keygen = KeygenIdle
  /\ signing = SigningIdle
  /\ extraction = ExtractionIdle

(* ------------------------------------------------------------------ *)
(* POST: the handler, one action per step between two awaits            *)
(* ------------------------------------------------------------------ *)
Bump(r, what) == [calls EXCEPT ![r][what] = @ + 1]
Stage(r, name) == [stages EXCEPT ![r] = Append(@, name)]
Fault(r, what) == [faults EXCEPT ![r] = @ \cup {what}]

(* An exception reaches the catch block of POST: the message is kept for *)
(* recordUpload("failed", message) and the 500 response.                 *)
Throw(r, message) ==
  /\ outcome' = [outcome EXCEPT ![r] = [status |-> 500, transcript |-> <<>>,
                                        error |-> message]]
  /\ pc' = [pc EXCEPT ![r] = "record"]

(* return NextResponse.json({ error }, { status: 400 }) inside the try. *)
Reject(r, message) ==
  /\ response' = [response EXCEPT ![r] = [NoResponse EXCEPT !.status = 400,
                                                            !.error = message]]
  /\ pc' = [pc EXCEPT ![r] = "done"]

(* The choice of the source as it would be with the link tried first. *)
ReceivePreferringUrl(r) ==
  /\ pc[r] = "idle"
  /\ \E f \in offered[r] :
       /\ IF MissingEnv # {}
          THEN /\ Throw(r, MsgMissingEnv)
               /\ UNCHANGED <<form, fileSource, file, calls, stages>>
          ELSE /\ form' = [form EXCEPT ![r] = f]
               /\ stages' = Stage(r, "received")
               /\ outcome' = outcome
               /\ IF f.remoteUrl # NoUrl
                  THEN /\ fileSource' = [fileSource EXCEPT ![r] = "url"]
                       /\ calls' = Bump(r, "fetch")
                       /\ pc' = [pc EXCEPT ![r] = "fetching"]
                       /\ file' = file
                  ELSE /\ file' = [file EXCEPT ![r] = f.fileEntry]
                       /\ pc' = [pc EXCEPT ![r] = "checkfile"]
                       /\ UNCHANGED <<fileSource, calls>>
  /\ UNCHANGED <<procVars, faults, history, transcriptionFile, convertedFromVideo, safeFilename,
                 uploadResult, recordedHistory, mediaVars, dispatchVars, response, putBody>>

(* validateEnv, formData and the choice of the source. *)
Receive(r) ==
  /\ pc[r] = "idle"
  /\ \E f \in offered[r] :
       /\ IF MissingEnv # {}
          THEN /\ Throw(r, MsgMissingEnv)
               /\ UNCHANGED <<form, fileSource, file, calls, stages>>
          ELSE /\ form' = [form EXCEPT ![r] = f]
               /\ stages' = Stage(r, "received")
               /\ outcome' = outcome
               /\ IF f.fileEntry # NoFile
                  THEN /\ file' = [file EXCEPT ![r] = f.fileEntry]
                       /\ pc' = [pc EXCEPT ![r] = "checkfile"]
                       /\ UNCHANGED <<fileSource, calls>>
                  ELSE IF f.remoteUrl # NoUrl
                  THEN /\ fileSource' = [fileSource EXCEPT ![r] = "url"]
                       /\ calls' = Bump(r, "fetch")
                       /\ pc' = [pc EXCEPT ![r] = "fetching"]
                       /\ file' = file
                  ELSE /\ pc' = [pc EXCEPT ![r] = "checkfile"]
                       /\ UNCHANGED <<fileSource, file, calls>>
  /\ UNCHANGED <<procVars, faults, history, transcriptionFile, convertedFromVideo, safeFilename,
                 uploadResult, recordedHistory, mediaVars, dispatchVars, response, putBody>>

(* fetchRemoteFile: the remote server answers. *)
FetchDone(r) ==
  /\ pc[r] = "fetching"
  /\ \/ /\ Throw(r, MsgFetchFailed)
        /\ faults' = Fault(r, "fetch")
        /\ file' = file
     \/ \E t \in RemoteTypes, s \in Sizes :
          /\ file' = [file EXCEPT ![r] =
                        [name |-> getFilenameFromUrl(form[r].remoteUrl), type |-> t,
                         size |-> s, bytes |-> "original"]]
          /\ pc' = [pc EXCEPT ![r] = "checkfile"]
          /\ UNCHANGED <<outcome, faults>>
  /\ UNCHANGED <<procVars, history, form, fileSource, transcriptionFile,
                 convertedFromVideo, safeFilename, uploadResult, recordedHistory,
                 mediaVars, dispatchVars, response, calls, putBody, stages>>

NeedsConversionByTypeOnly(f) == ~isAudioFile(f) /\ TypeMajor(f.type) = "video"

(* The file is there; a video that is not also audio goes to the transcoder. *)
NeedsConversion(f) == ~isAudioFile(f) /\ isVideoFile(f)

CheckFile(r) ==
  /\ pc[r] = "checkfile"
  /\ IF file[r] = NoFile
     THEN /\ Reject(r, MsgNoFile)
          /\ UNCHANGED <<transcriptionFile, calls>>
     ELSE /\ transcriptionFile' = [transcriptionFile EXCEPT ![r] = file[r]]
          /\ response' = response
          /\ IF NeedsConversion(file[r])
             THEN /\ calls' = Bump(r, "spawn")
                  /\ pc' = [pc EXCEPT ![r] = "converting"]
             ELSE /\ calls' = calls
                  /\ pc' = [pc EXCEPT ![r] = "validate"]
  /\ UNCHANGED <<procVars, faults, history, form, fileSource, file, convertedFromVideo,
                 safeFilename, uploadResult, recordedHistory, mediaVars, dispatchVars,
                 outcome, putBody, stages>>

(* convertVideoToAudio: transcodeToMp3 resolves with the audio or with null. *)
ConvertDone(r) ==
  /\ pc[r] = "converting"
  /\ \/ /\ Throw(r, MsgNoAudioInVideo)
        /\ faults' = Fault(r, "convert")
        /\ UNCHANGED <<transcriptionFile, convertedFromVideo, stages>>
     \/ \E s \in TranscodedSizes :
          /\ transcriptionFile' = [transcriptionFile EXCEPT ![r] =
               [name |-> ensureMp3Extension(file[r].name), type |-> AudioMpeg,
                size |-> s, bytes |-> "extracted"]]
          /\ convertedFromVideo' = [convertedFromVideo EXCEPT ![r] = TRUE]
          /\ stages' = Stage(r, "video-converted")
          /\ pc' = [pc EXCEPT ![r] = "validate"]
          /\ UNCHANGED <<outcome, faults>>
  /\ UNCHANGED <<procVars, history, form, fileSource, file, safeFilename, uploadResult,
                 recordedHistory, mediaVars, dispatchVars, response, calls, putBody>>


(* buildObjectKey as far as the route depends on it, on names given as   *)
(* their dot-separated parts: the key keeps the name it was built from.  *)
buildObjectKeyFromParts(filename) == <<"uploads/audio/{ts}-{rand}">> \o filename

(* The value uploadToOSS returns when the PUT succeeded. *)
uploadToOSSResult(f) ==
  [set |-> TRUE, key |-> buildObjectKeyFromParts(f.name),
   url |-> <<"https://{bucket}.{region}.aliyuncs.com">> \o buildObjectKeyFromParts(f.name)]

deriveObjectKeyUndecoded(url) == WithoutLeadingSlash(url.pathname)

(* The decoded path without its leading slash; the value itself when the *)
(* path cannot be decoded (the catch of deriveObjectKeyFromUrl).         *)
deriveObjectKeyFromUrl(url) ==
  LET path == WithoutLeadingSlash(url.pathname)
  IN  IF CanDecode(path) THEN decodeURIComponent(path) ELSE <<url.href>>

buildUploadResultFromUrl(url) ==
  [set |-> TRUE, url |-> <<url.href>>, key |-> deriveObjectKeyFromUrl(url)]

(* The argument of uploadToOSS at the call in POST. *)
UploadArgument(r) == file[r]

RejectTooLargeAfterPut(r) ==
  /\ Reject(r, MsgTooLarge)
  /\ calls' = Bump(r, "put")
  /\ putBody' = [putBody EXCEPT ![r] = UploadArgument(r)]
  /\ UNCHANGED <<safeFilename, uploadResult, stages>>

(* The size check of POST fails: 400, before anything is stored. *)
RejectTooLarge(r) ==
  /\ Reject(r, MsgTooLarge)
  /\ UNCHANGED <<safeFilename, uploadResult, calls, putBody, stages>>

(* The type and size checks, safeFilename, then the PUT or the link. *)
TooLargeForUploadsOnly(r) == fileSource[r] = "upload" /\ file[r].size > MAX_FILE_SIZE

(* file.size > MAX_FILE_SIZE: the size of the file as received, whatever *)
(* its source.                                                          *)
TooLarge(r) == file[r].size > MAX_FILE_SIZE

Validate(r) ==
  /\ pc[r] = "validate"
  /\ IF ~isAudioFile(transcriptionFile[r])
     THEN /\ Reject(r, MsgNotAudio)
          /\ UNCHANGED <<safeFilename, uploadResult, calls, putBody, stages>>
     ELSE IF TooLarge(r)
     THEN RejectTooLarge(r)
     ELSE /\ safeFilename' = [safeFilename EXCEPT ![r] = transcriptionFile[r].name]
          /\ response' = response
          /\ IF fileSource[r] = "upload"
             THEN /\ calls' = Bump(r, "put")
                  /\ putBody' = [putBody EXCEPT ![r] = UploadArgument(r)]
                  /\ stages' = Stage(r, "validated")
                  /\ pc' = [pc EXCEPT ![r] = "uploading"]
                  /\ uploadResult' = uploadResult
             ELSE /\ uploadResult' = [uploadResult EXCEPT ![r] =
                                        buildUploadResultFromUrl(form[r].remoteUrl)]
                  /\ stages' = [stages EXCEPT ![r] = @ \o <<"validated", "uploaded-or-linked">>]
                  /\ pc' = [pc EXCEPT ![r] = "optimize"]
                  /\ UNCHANGED <<calls, putBody>>
  /\ UNCHANGED <<procVars, faults, history, form, fileSource, file, transcriptionFile,
                 convertedFromVideo, recordedHistory, mediaVars, dispatchVars, outcome>>

UploadDoneIgnoringStatus(r) ==
  /\ pc[r] = "uploading"
  /\ \/ faults' = Fault(r, "put")
     \/ faults' = faults
  /\ uploadResult' = [uploadResult EXCEPT ![r] = uploadToOSSResult(putBody[r])]
  /\ stages' = Stage(r, "uploaded-or-linked")
  /\ pc' = [pc EXCEPT ![r] = "optimize"]
  /\ UNCHANGED <<procVars, history, fileVars, recordedHistory, mediaVars, dispatchVars,
                 endVars, calls, putBody>>

(* uploadToOSS: the object store answers the PUT. *)
UploadDone(r) ==
  /\ pc[r] = "uploading"
  /\ \/ /\ Throw(r, MsgUploadFailed)
        /\ faults' = Fault(r, "put")
        /\ UNCHANGED <<uploadResult, stages>>
     \/ /\ uploadResult' = [uploadResult EXCEPT ![r] = uploadToOSSResult(putBody[r])]
        /\ stages' = Stage(r, "uploaded-or-linked")
        /\ pc' = [pc EXCEPT ![r] = "optimize"]
        /\ UNCHANGED <<outcome, faults>>
  /\ UNCHANGED <<procVars, history, fileVars, recordedHistory, mediaVars, dispatchVars,
                 response, calls, putBody>>

SkipsOptimizationWhenDisabled(f) == ~AUDIO_OPTIMIZATION_ENABLED

(* optimizeAudioForTranscription up to the transcoder. *)
SkipsOptimization(f) ==
  \/ ~AUDIO_OPTIMIZATION_ENABLED
  \/ f.size <= AUDIO_OPTIMIZATION_THRESHOLD

Optimize(r) ==
  /\ pc[r] = "optimize"
  /\ IF SkipsOptimization(transcriptionFile[r])
     THEN /\ optimizedFile' = [optimizedFile EXCEPT ![r] = transcriptionFile[r]]
          /\ stages' = Stage(r, "optimized")
          /\ pc' = [pc EXCEPT ![r] = "segment"]
          /\ calls' = calls
     ELSE /\ calls' = Bump(r, "spawn")
          /\ pc' = [pc EXCEPT ![r] = "optimizing"]
          /\ UNCHANGED <<optimizedFile, stages>>
  /\ UNCHANGED <<procVars, faults, history, fileVars, uploadResult, recordedHistory,
                 segmentedFiles, dispatchVars, endVars, putBody>>

(* transcodeToMp3 resolves: null keeps the file, a buffer replaces it. *)
OptimizeDone(r) ==
  /\ pc[r] = "optimizing"
  /\ \/ /\ optimizedFile' = [optimizedFile EXCEPT ![r] = transcriptionFile[r]]
        /\ faults' = Fault(r, "optimize")
     \/ \E s \in TranscodedSizes :
          /\ optimizedFile' = [optimizedFile EXCEPT ![r] =
               [name |-> ensureMp3Extension(transcriptionFile[r].name), type |-> AudioMpeg,
                size |-> s, bytes |-> "optimized"]]
          /\ faults' = faults
  /\ stages' = Stage(r, "optimized")
  /\ pc' = [pc EXCEPT ![r] = "segment"]
  /\ UNCHANGED <<procVars, history, fileVars, uploadResult, recordedHistory,
                 segmentedFiles, dispatchVars, endVars, calls, putBody>>

SkipsSegmentationWhenDisabled(f) == ~AUDIO_SEGMENT_ENABLED

(* segmentAudioFile up to the transcoder. *)
SkipsSegmentation(f) ==
  \/ ~AUDIO_SEGMENT_ENABLED
  \/ f.size <= AUDIO_SEGMENT_MIN_SIZE
  \/ AUDIO_SEGMENT_DURATION <= 0

(* mkdtemp(prefix): a directory whose name no directory made before has. *)
Mkdtemp(dirs) == 1 + Cardinality({q \in DOMAIN dirs : dirs[q].name # 0})

Segment(r) ==
  /\ pc[r] = "segment"
  /\ IF SkipsSegmentation(optimizedFile[r])
     THEN /\ segmentedFiles' = [segmentedFiles EXCEPT ![r] = <<optimizedFile[r]>>]
          /\ stages' = Stage(r, "segmented")
          /\ pc' = [pc EXCEPT ![r] = "transcribe"]
          /\ UNCHANGED <<calls, outcome, faults, tempDirs>>
     ELSE \/ /\ Throw(r, MsgMkdtemp)
             /\ faults' = Fault(r, "mkdtemp")
             /\ calls' = Bump(r, "mkdtemp")
             /\ UNCHANGED <<segmentedFiles, stages, tempDirs>>
          \/ /\ calls' = [calls EXCEPT ![r].mkdtemp = @ + 1, ![r].spawn = @ + 1,
                                        ![r].segmenter = @ + 1]
             /\ tempDirs' = [tempDirs EXCEPT ![r] =
                               [name |-> Mkdtemp(tempDirs), exists |-> TRUE, removals |-> 0]]
             /\ pc' = [pc EXCEPT ![r] = "segmenting"]
             /\ UNCHANGED <<segmentedFiles, stages, outcome, faults>>
  /\ UNCHANGED <<settingVars, history, fileVars, uploadResult, recordedHistory,
                 optimizedFile, dispatchVars, response, putBody>>

SegmentFile(i) ==
  [name |-> <<"segment-00" \o ToString(i), "mp3">>, type |-> AudioMpeg,
   size |-> 200 * 1024, bytes |-> "segment-00" \o ToString(i)]

(* The body of the try after the transcoder was spawned: a failure of the *)
(* transcoder, of readdir or of readFile, or k segment files that are     *)
(* read into memory.  The list to return is ready, the finally block has  *)
(* not run yet.                                                           *)
SegmentDone(r) ==
  /\ pc[r] = "segmenting"
  /\ \/ /\ segmentedFiles' = [segmentedFiles EXCEPT ![r] = <<optimizedFile[r]>>]
        /\ faults' = Fault(r, "segment")
     \/ \E k \in 0..MaxSegments :
          /\ segmentedFiles' = [segmentedFiles EXCEPT ![r] =
               IF k <= 1 THEN <<optimizedFile[r]>>
               ELSE [i \in 1..k |-> SegmentFile(i - 1)]]
          /\ faults' = faults
  /\ pc' = [pc EXCEPT ![r] = "cleanup"]
  /\ UNCHANGED <<procVars, history, fileVars, uploadResult, recordedHistory,
                 optimizedFile, dispatchVars, endVars, calls, putBody, stages>>

KeepDir(dir, removed) == dir

(* rm(tempDir, { recursive: true, force: true }).catch(() => undefined): *)
(* the directory is gone, or the removal failed and nothing is raised.   *)
RemoveDir(dir, removed) ==
  [dir EXCEPT !.exists = ~removed, !.removals = @ + 1]

(* The finally block, then the return of the list. *)
SegmentCleanup(r) ==
  /\ pc[r] = "cleanup"
  /\ \E removed \in BOOLEAN : tempDirs' = [tempDirs EXCEPT ![r] = RemoveDir(@, removed)]
  /\ stages' = Stage(r, "segmented")
  /\ pc' = [pc EXCEPT ![r] = "transcribe"]
  /\ UNCHANGED <<settingVars, history, fileVars, uploadResult, recordedHistory, mediaVars,
                 dispatchVars, endVars, calls, putBody, faults>>


(* ------------------------------------------------------------------ *)
(* transcribeSegments                                                   *)
(* ------------------------------------------------------------------ *)
Unfilled == [filled |-> FALSE, transcript |-> <<>>]

StoreResultInCompletionOrder(res, current, transcript) ==
  LET free == {i \in DOMAIN res : ~res[i].filled}
      first == CHOOSE i \in free : \A j \in free : i <= j
  IN  [res EXCEPT ![first] = [filled |-> TRUE, transcript |-> transcript]]

(* results[current] = result *)
StoreResult(res, current, transcript) ==
  [res EXCEPT ![current] = [filled |-> TRUE, transcript |-> transcript]]

PoolIgnoringRejection(p) == p

(* Promise.all when one of its promises rejects: it rejects, once. *)
PoolAfterRejection(p) == IF p = "pending" THEN "rejected" ELSE p

ClaimNextWithoutAdvance(r, w, n) ==
  LET current == cursor[r] - 1 IN
  /\ cursor' = cursor
  /\ IF current >= n
     THEN /\ workers' = [workers EXCEPT ![r][w] = [@ EXCEPT !.state = "done", !.current = current]]
          /\ calls' = calls
     ELSE /\ workers' = [workers EXCEPT ![r][w] =
                           [state |-> "waiting", current |-> current,
                            claimed |-> Append(@.claimed, current)]]
          /\ calls' = Bump(r, "speech")

(* The loop as it would be if a worker that finds no segment left waited *)
(* instead of leaving the loop.                                          *)
ClaimNextParking(r, w, n) ==
  LET current == cursor[r] IN
  /\ cursor' = [cursor EXCEPT ![r] = current + 1]
  /\ IF current >= n
     THEN /\ workers' = [workers EXCEPT ![r][w] = [@ EXCEPT !.state = "parked", !.current = current]]
          /\ calls' = calls
     ELSE /\ workers' = [workers EXCEPT ![r][w] =
                           [state |-> "waiting", current |-> current,
                            claimed |-> Append(@.claimed, current)]]
          /\ calls' = Bump(r, "speech")

(* The body of the while loop up to its await: claim the next ordinal and, *)
(* if there is one, send its segment.  claimed keeps the ordinals the      *)
(* worker has sent so far, in the order it claimed them.                   *)
ClaimNext(r, w, n) ==
  LET current == cursor[r] IN
  /\ cursor' = [cursor EXCEPT ![r] = current + 1]
  /\ IF current >= n
     THEN /\ workers' = [workers EXCEPT ![r][w] = [@ EXCEPT !.state = "done", !.current = current]]
          /\ calls' = calls
     ELSE /\ workers' = [workers EXCEPT ![r][w] =
                           [state |-> "waiting", current |-> current,
                            claimed |-> Append(@.claimed, current)]]
          /\ calls' = Bump(r, "speech")

(* The calls up to the first await: one request for a single file, or the *)
(* workers, each of which claims an ordinal before the next one is made.  *)
TranscribeStart(r) ==
  LET n == Len(segmentedFiles[r])
      concurrency == MathMin(AUDIO_SEGMENT_CONCURRENCY, n)
      started == ToLength(concurrency)
  IN
  /\ pc[r] = "transcribe"
  /\ n >= 1
  /\ pc' = [pc EXCEPT ![r] = "transcribing"]
  /\ IF n = 1
     THEN /\ calls' = Bump(r, "speech")
          /\ replied' = [replied EXCEPT ![r] = [i \in 0..0 |-> {}]]
          /\ UNCHANGED <<cursor, results, workers, pool>>
     ELSE /\ results' = [results EXCEPT ![r] = [i \in 0..(n - 1) |-> Unfilled]]
          /\ replied' = [replied EXCEPT ![r] = [i \in 0..(n - 1) |-> {}]]
          /\ workers' = [workers EXCEPT ![r] =
                           [w \in 1..started |->
                              [state |-> "waiting", current |-> w - 1, claimed |-> <<w - 1>>]]]
          /\ cursor' = [cursor EXCEPT ![r] = started]
          /\ calls' = [calls EXCEPT ![r].speech = @ + started]
          /\ pool' = [pool EXCEPT ![r] = "pending"]
  /\ UNCHANGED <<procVars, faults, history, fileVars, uploadResult, recordedHistory, mediaVars,
                 endVars, putBody, stages>>

(* The speech API answers the request of a single-file transcription. *)
SingleDone(r) ==
  /\ pc[r] = "transcribing"
  /\ Len(segmentedFiles[r]) = 1
  /\ \E reply \in SpeechReplies :
       LET result == transcribeWithApimart(reply, TRANSCRIPT_SIMPLIFY) IN
       IF result.threw
       THEN /\ Throw(r, result.message)
            /\ faults' = Fault(r, "speech")
            /\ UNCHANGED <<replied, stages>>
       ELSE /\ replied' = [replied EXCEPT ![r][0] = {result.transcript}]
            /\ faults' = faults
            /\ outcome' = [outcome EXCEPT ![r] =
                 [status |-> 200, transcript |-> result.transcript, error |-> ""]]
            /\ stages' = Stage(r, "transcribed")
            /\ pc' = [pc EXCEPT ![r] = "record"]
  /\ UNCHANGED <<procVars, history, fileVars, uploadResult, recordedHistory, mediaVars,
                 cursor, results, workers, pool, response, calls, putBody>>

(* The speech API answers the request worker w is waiting for.  A rejected *)
(* worker rejects Promise.all, once; the other workers keep running.       *)
WorkerStep(r, w) ==
  /\ w \in DOMAIN workers[r]
  /\ workers[r][w].state = "waiting"
  /\ \E reply \in SpeechReplies :
       LET result == transcribeWithApimart(reply, TRANSCRIPT_SIMPLIFY)
           current == workers[r][w].current
       IN
       IF result.threw
       THEN /\ workers' = [workers EXCEPT ![r][w].state = "failed"]
            /\ faults' = Fault(r, "speech")
            /\ pool' = [pool EXCEPT ![r] = PoolAfterRejection(@)]
            /\ IF pool'[r] # pool[r]
               THEN Throw(r, result.message)
               ELSE UNCHANGED <<outcome, pc>>
            /\ UNCHANGED <<cursor, results, replied, calls>>
       ELSE /\ results' = [results EXCEPT ![r] = StoreResult(@, current, result.transcript)]
            /\ replied' = [replied EXCEPT ![r][current] = {result.transcript}]
            /\ ClaimNext(r, w, Len(segmentedFiles[r]))
            /\ UNCHANGED <<pool, outcome, pc, faults>>
  /\ UNCHANGED <<procVars, history, fileVars, uploadResult, recordedHistory, mediaVars,
                 response, putBody, stages>>

RECURSIVE NonEmpty(_)
NonEmpty(pieces) ==
  IF pieces = <<>> THEN <<>>
  ELSE (IF Head(pieces) = <<>> THEN <<>> ELSE <<Head(pieces)>>) \o NonEmpty(Tail(pieces))

(* results.map(r => r?.transcript || "").filter(Boolean).join("\n\n") *)
JoinResults(res) ==
  JoinWith(NonEmpty([i \in 1..Cardinality(DOMAIN res) |-> res[i - 1].transcript]),
           <<"\n\n">>)


(* Promise.all resolves when every worker has returned. *)
PoolResolved(r) ==
  /\ pool[r] = "pending"
  /\ \A w \in DOMAIN workers[r] : workers[r][w].state = "done"
  /\ pool' = [pool EXCEPT ![r] = "resolved"]
  /\ outcome' = [outcome EXCEPT ![r] =
       [status |-> 200, error |-> "",
        transcript |-> normalizeTranscriptText(JoinResults(results[r]),
                                               TRANSCRIPT_SIMPLIFY)]]
  /\ stages' = Stage(r, "transcribed")
  /\ pc' = [pc EXCEPT ![r] = "record"]
  /\ UNCHANGED <<procVars, faults, history, fileVars, uploadResult, recordedHistory, mediaVars,
                 cursor, results, workers, replied, response, calls, putBody>>

(* ------------------------------------------------------------------ *)
(* recordUpload and the response                                        *)
(* ------------------------------------------------------------------ *)
MayRecordWithoutDescriptor(r) == isHistoryEnabled /\ ~recordedHistory[r]

MayRecordSharedFlag(r) ==
  isHistoryEnabled /\ uploadResult[r].set /\ \A q \in Reqs : ~recordedHistory[q]

(* The guards of recordUpload: history on, a descriptor, not yet recorded. *)
MayRecord(r) == isHistoryEnabled /\ uploadResult[r].set /\ ~recordedHistory[r]

StatusOf(o) == IF o.status = 200 THEN "completed" ELSE "failed"

(* The body NextResponse.json sends for the pipeline's outcome. *)
ResponseOf(r) ==
  IF outcome[r].status = 200
  THEN [status |-> 200, transcript |-> outcome[r].transcript, error |-> "",
        audioUrl |-> uploadResult[r].url, objectKey |-> uploadResult[r].key]
  ELSE [NoResponse EXCEPT !.status = 500, !.error = outcome[r].error]

(* recordUpload(status, message) up to its await; without an insert the *)
(* response follows at once.                                            *)
RecordUpload(r) ==
  /\ pc[r] = "record"
  /\ IF MayRecord(r)
     THEN /\ recordedHistory' = [recordedHistory EXCEPT ![r] = TRUE]
          /\ calls' = Bump(r, "insert")
          /\ pc' = [pc EXCEPT ![r] = "inserting"]
          /\ response' = response
     ELSE /\ response' = [response EXCEPT ![r] = ResponseOf(r)]
          /\ pc' = [pc EXCEPT ![r] = "done"]
          /\ UNCHANGED <<recordedHistory, calls>>
  /\ UNCHANGED <<procVars, faults, history, fileVars, uploadResult, mediaVars, dispatchVars,
                 outcome, putBody, stages>>

RowWithoutMessage(r) ==
  [request |-> r, filename |-> safeFilename[r], audio_url |-> uploadResult[r].url,
   object_key |-> uploadResult[r].key, status |-> StatusOf(outcome[r]),
   error_message |-> ""]

(* The row insertAudioUpload is given. *)
RowOf(r) ==
  [request |-> r, filename |-> safeFilename[r], audio_url |-> uploadResult[r].url,
   object_key |-> uploadResult[r].key, status |-> StatusOf(outcome[r]),
   error_message |-> outcome[r].error]

(* insertAudioUpload as it would be without the catch of recordUpload:   *)
(* a throw reaches the catch of the route, which records the failure.    *)
InsertDoneRaising(r) ==
  /\ pc[r] = "inserting"
  /\ \/ /\ history' = Append(history, RowOf(r))
        /\ stages' = Stage(r, "recorded(" \o StatusOf(outcome[r]) \o ")")
        /\ response' = [response EXCEPT ![r] = ResponseOf(r)]
        /\ pc' = [pc EXCEPT ![r] = "done"]
        /\ UNCHANGED <<faults, outcome>>
     \/ /\ faults' = Fault(r, "insert")
        /\ outcome' = [outcome EXCEPT ![r] =
                         [status |-> 500, error |-> "insert failed", transcript |-> <<>>]]
        /\ pc' = [pc EXCEPT ![r] = "record"]
        /\ UNCHANGED <<history, stages, response>>
  /\ UNCHANGED <<procVars, fileVars, uploadResult, recordedHistory, mediaVars,
                 dispatchVars, calls, putBody>>

(* insertAudioUpload returns or throws; a throw is logged and dropped. *)
InsertDone(r) ==
  /\ pc[r] = "inserting"
  /\ \/ /\ history' = Append(history, RowOf(r))
        /\ stages' = Stage(r, "recorded(" \o StatusOf(outcome[r]) \o ")")
        /\ faults' = faults
     \/ /\ faults' = Fault(r, "insert")
        /\ UNCHANGED <<history, stages>>
  /\ response' = [response EXCEPT ![r] = ResponseOf(r)]
  /\ pc' = [pc EXCEPT ![r] = "done"]
  /\ UNCHANGED <<procVars, fileVars, uploadResult, recordedHistory, mediaVars,
                 dispatchVars, outcome, calls, putBody>>

(* ------------------------------------------------------------------ *)
(* POST /summarize: the local summary                                    *)
(* ------------------------------------------------------------------ *)
(* A text is a sequence of characters: "w" a Latin letter, "zh" a CJK    *)
(* ideograph, "." and "zh." the full stops of the two scripts, "SP" a    *)
(* blank, "NL" and "CR" the line ends.                                   *)
Chars == {"w", "zh", ".", "zh.", "SP", "NL", "CR"}

Repeat(text, n) ==
  [i \in 1..(n * Len(text)) |-> text[((i - 1) % Len(text)) + 1]]

(* String.prototype.trim *)
IsBlank(c) == c \in {"SP", "NL", "CR"}

TrimStart(text) ==
  IF \A i \in DOMAIN text : IsBlank(text[i]) THEN <<>>
  ELSE SubSeq(text, CHOOSE i \in DOMAIN text :
                      ~IsBlank(text[i]) /\ \A k \in 1..(i - 1) : IsBlank(text[k]),
              Len(text))

TrimEnd(text) ==
  IF \A i \in DOMAIN text : IsBlank(text[i]) THEN <<>>
  ELSE SubSeq(text, 1, CHOOSE i \in DOMAIN text :
                         ~IsBlank(text[i]) /\ \A k \in (i + 1)..Len(text) : IsBlank(text[k]))

Trim(text) == TrimEnd(TrimStart(text))

(* /[一-龥]/.test(transcript) *)
detectLanguage(transcript) ==
  IF \E i \in DOMAIN transcript : transcript[i] = "zh" THEN "zh" ELSE "en"

(* The elements of a set of numbers in increasing order. *)
Sorted(S) ==
  [k \in 1..Cardinality(S) |-> CHOOSE x \in S : Cardinality({y \in S : y <= x}) = k]

(* text.split(/\n+/): the pieces between the runs of line ends, with an  *)
(* empty piece before a leading and after a trailing run.                *)
SplitLines(text) ==
  LET n == Len(text)
      starts == {i \in 1..(n + 1) :
                   /\ i = 1 \/ text[i - 1] = "NL"
                   /\ i = n + 1 \/ text[i] # "NL"}
      endOf(i) == CHOOSE j \in (i - 1)..n :
                    /\ \A k \in i..j : text[k] # "NL"
                    /\ j = n \/ text[j + 1] = "NL"
      pieces == [k \in DOMAIN Sorted(starts) |->
                   SubSeq(text, Sorted(starts)[k], endOf(Sorted(starts)[k]))]
  IN  IF n > 0 /\ text[1] = "NL" THEN <<<<>>>> \o pieces ELSE pieces

(* line.split(/(?<=[.!?])/): a cut after every sentence end of the       *)
(* language, none at the end of the line.                                *)
SplitAfter(text, stop) ==
  LET n == Len(text)
      starts == {1} \cup {i + 1 : i \in {k \in 1..(n - 1) : text[k] = stop}}
      endOf(i) == CHOOSE j \in i..n :
                    /\ \A k \in i..(j - 1) : text[k] # stop
                    /\ j = n \/ text[j] = stop
  IN  IF n = 0 THEN <<<<>>>>
      ELSE [k \in DOMAIN Sorted(starts) |->
              SubSeq(text, Sorted(starts)[k], endOf(Sorted(starts)[k]))]

(* .map((x) => x.trim()).filter(Boolean) *)
RECURSIVE TrimmedNonEmpty(_)
TrimmedNonEmpty(pieces) ==
  IF pieces = <<>> THEN <<>>
  ELSE (IF Trim(Head(pieces)) = <<>> THEN <<>> ELSE <<Trim(Head(pieces))>>)
         \o TrimmedNonEmpty(Tail(pieces))

RECURSIVE Flatten(_)
Flatten(lists) == IF lists = <<>> THEN <<>> ELSE Head(lists) \o Flatten(Tail(lists))

splitSentences(transcript, lang) ==
  LET normalized == [i \in DOMAIN transcript |->
                       IF transcript[i] = "CR" THEN "NL" ELSE transcript[i]]
      stop == IF lang = "zh" THEN "zh." ELSE "."
      lines == TrimmedNonEmpty(SplitLines(normalized))
      partsOf(line) == TrimmedNonEmpty(SplitAfter(line, stop))
  IN  Flatten([i \in DOMAIN lines |->
                 IF partsOf(lines[i]) # <<>> THEN partsOf(lines[i]) ELSE <<lines[i]>>])

(* text.slice(0, maxLength) followed by an ellipsis when the text is longer. *)
truncateSentence(text, maxLength) ==
  IF Len(text) <= maxLength THEN text ELSE SubSeq(text, 1, maxLength) \o <<"...">>

(* items.slice(from, to) with 0-based bounds. *)
Slice(items, from, to) == SubSeq(items, from + 1, Min(to, Len(items)))

RECURSIVE chunkArray(_, _)
chunkArray(items, size) ==
  IF items = <<>> THEN <<>>
  ELSE <<Slice(items, 0, size)>> \o chunkArray(Slice(items, size, Len(items)), size)

(* The texts of FALLBACK_COPY that the summary is built from (the zh     *)
(* texts in ASCII renderings).                                           *)
FALLBACK_COPY ==
  [zh |-> [warning |-> "zh: cannot reach APIMart, local preview only",
           introHeading |-> "## zh Part 1: core theme",
           introGuide |-> "zh: produced by local rules",
           keypointHeading |-> "## zh Part 2: key insights",
           keypointTitle |-> "zh Insight ",
           themeHeading |-> "## zh Part 3: thematic deep dive",
           themeTitle |-> "### zh Theme ",
           cardHeading |-> "## zh Part 4: knowledge cards",
           cardStep |-> "zh Step ",
           metaHeading |-> "## zh Part 5: meta analysis",
           separator |-> <<>>],
   en |-> [warning |-> "Unable to reach APIMart. Generated a lightweight local summary",
           introHeading |-> "## Part 1: Core Theme",
           introGuide |-> "This snapshot is produced locally",
           keypointHeading |-> "## Part 2: Key Insights",
           keypointTitle |-> "Insight ",
           themeHeading |-> "## Part 3: Thematic Deep Dive",
           themeTitle |-> "### Theme ",
           cardHeading |-> "## Part 4: Knowledge Cards",
           cardStep |-> "Step ",
           metaHeading |-> "## Part 5: Meta Analysis",
           separator |-> <<"SP">>]]

(* chunk[i] with the default "-" of the destructuring. *)
OrDash(chunk, i) == IF i <= Len(chunk) THEN chunk[i] ELSE <<"-">>

(* array.filter(Boolean) on blocks of text. *)
RECURSIVE Truthy(_)
Truthy(blocks) ==
  IF blocks = <<>> THEN <<>>
  ELSE (IF Head(blocks) = <<>> THEN <<>> ELSE <<Head(blocks)>>) \o Truthy(Tail(blocks))

(* The texts buildLocalSummary computes from the transcript. *)
LocalSummaryParts(transcript) ==
  LET lang == detectLanguage(transcript)
      copy == FALLBACK_COPY[lang]
      sentences == splitSentences(transcript, lang)
      sentencesToUse == IF sentences # <<>> THEN sentences ELSE <<Slice(transcript, 0, 200)>>
      summaryText == JoinWith(Slice(sentencesToUse, 0, 6), copy.separator)
      keyPointCount == Min(6, Len(sentencesToUse))
      keyPoint(i) ==
        LET clipped == truncateSentence(sentencesToUse[i], 160)
        IN  <<copy.keypointTitle \o ToString(i), "NL", "core:">> \o clipped
              \o <<"NL", "quote:">> \o clipped \o <<"NL", "why:">>
      keyPoints == JoinWith([i \in 1..keyPointCount |-> keyPoint(i)], <<"NL", "NL">>)
      themeChunks ==
        Slice(chunkArray(Slice(sentencesToUse, keyPointCount, Len(sentencesToUse)), 3), 0, 3)
      theme(i) ==
        LET chunk == [j \in DOMAIN themeChunks[i] |-> truncateSentence(themeChunks[i][j], 200)]
        IN  <<copy.themeTitle \o ToString(i), "NL", "core:">> \o OrDash(chunk, 1)
              \o <<"NL", "story:">> \o OrDash(chunk, 2)
              \o <<"NL", "action:">> \o OrDash(chunk, 3)
              \o <<"NL", "quote:">> \o truncateSentence(themeChunks[i][1], 80)
      themes == JoinWith([i \in DOMAIN themeChunks |-> theme(i)], <<"NL", "NL">>)
      cardChunks == Slice(chunkArray(sentencesToUse, 3), 0, 3)
      cardRow(i) ==
        <<"|", copy.cardStep \o ToString(i), "|">>
          \o truncateSentence(OrDash(cardChunks[i], 1), 120) \o <<"|">>
          \o truncateSentence(OrDash(cardChunks[i], 2), 120) \o <<"|">>
      cardRows == JoinWith([i \in DOMAIN cardChunks |-> cardRow(i)], <<"NL">>)
  IN  [copy |-> copy, summaryText |-> summaryText, keyPoints |-> keyPoints,
       themes |-> themes, cardRows |-> cardRows]

AssembleSummaryWithoutEmptySections(parts) ==
  JoinWith(
    Truthy(<<<<parts.copy.introHeading>>,
             <<parts.copy.introGuide>>,
             parts.summaryText,
             <<parts.copy.keypointHeading>>,
             parts.keyPoints>>
           \o (IF parts.themes # <<>> THEN <<<<parts.copy.themeHeading>>, parts.themes>>
               ELSE <<>>)
           \o <<<<parts.copy.cardHeading>>,
                <<"| columns |">>,
                <<"| --- | --- | --- |">>,
                IF parts.cardRows # <<>> THEN parts.cardRows ELSE <<"| - | - | - |">>,
                <<parts.copy.metaHeading>>,
                <<"- meta bullets">>>>),
    <<"NL", "NL">>)

(* The array of the return statement, .filter(Boolean).join("\n\n"). *)
AssembleSummary(parts) ==
  JoinWith(
    Truthy(<<<<parts.copy.introHeading>>,
             <<parts.copy.introGuide>>,
             parts.summaryText,
             <<parts.copy.keypointHeading>>,
             parts.keyPoints,
             <<parts.copy.themeHeading>>,
             IF parts.themes # <<>> THEN parts.themes ELSE <<"-">>,
             <<parts.copy.cardHeading>>,
             <<"| columns |">>,
             <<"| --- | --- | --- |">>,
             IF parts.cardRows # <<>> THEN parts.cardRows ELSE <<"| - | - | - |">>,
             <<parts.copy.metaHeading>>,
             <<"- meta bullets">>>>),
    <<"NL", "NL">>)

buildLocalSummary(transcript) == AssembleSummary(LocalSummaryParts(transcript))

(* ------------------------------------------------------------------ *)
(* POST /summarize: the handler                                          *)
(* ------------------------------------------------------------------ *)
(* The transcripts of the model: talks of 0..MaxSentences sentences, and *)
(* texts without a sentence end, with blanks around them, of blanks only. *)
Talk(sentence, n) == Repeat(sentence, n)

Transcripts ==
  {Talk(<<"w", ".", "SP">>, n) : n \in 0..MaxSentences}
    \cup {Talk(<<"zh", "zh.">>, n) : n \in {1, 7}}
    \cup {<<"w">>, <<"SP", "NL">>, <<"SP", "w", "CR", "w", ".", "SP">>, <<".">>,
          Repeat(<<"w">>, 170) \o <<".", "w">>}

(* A JSON value of the body that is a number or a string. *)
JsonNumber == [kind |-> "number", text |-> <<>>]
JsonString(text) == [kind |-> "string", text |-> text]

(* The request bodies: not JSON, or an object with transcript and prompt. *)
SummarizeBodies ==
  {[json |-> FALSE, transcript |-> JsonAbsent, prompt |-> JsonAbsent]}
    \cup {[json |-> TRUE, transcript |-> t, prompt |-> p] :
            t \in {JsonAbsent, JsonNumber} \cup {JsonString(x) : x \in Transcripts},
            p \in {JsonAbsent, JsonString(<<"w">>)}}

(* The content of choices[0].message: absent, a string, or a list of     *)
(* parts with a text or a content field.                                 *)
NoPart == [text |-> {}, content |-> {}]
ChatContents ==
  {[kind |-> "absent", text |-> <<>>, parts |-> <<>>],
   [kind |-> "string", text |-> <<>>, parts |-> <<>>],
   [kind |-> "string", text |-> <<"w", ".">>, parts |-> <<>>],
   [kind |-> "array", text |-> <<>>, parts |-> <<>>],
   [kind |-> "array", text |-> <<>>,
    parts |-> <<[text |-> {<<"w">>}, content |-> {}], NoPart,
                [text |-> {}, content |-> {<<".", "SP">>}]>>]}

(* What the completion endpoint does with the request: the connection    *)
(* fails, or it answers with a status and a body that is JSON or not.    *)
ChatReplies ==
  {[reached |-> FALSE, status |-> 0, json |-> FALSE, isNull |-> FALSE, error |-> {},
    content |-> c] : c \in {CHOOSE x \in ChatContents : x.kind = "absent"}}
    \cup {[reached |-> TRUE, status |-> st, json |-> FALSE, isNull |-> FALSE, error |-> {},
           content |-> c] : st \in {200, 502}, c \in {CHOOSE x \in ChatContents : x.kind = "absent"}}
    \cup {[reached |-> TRUE, status |-> 200, json |-> TRUE, isNull |-> n, error |-> {},
           content |-> c] : n \in BOOLEAN, c \in ChatContents}
    \cup {[reached |-> TRUE, status |-> 429, json |-> TRUE, isNull |-> n, error |-> e,
           content |-> c] : n \in BOOLEAN, e \in {{}, {"quota exceeded"}},
                            c \in {CHOOSE x \in ChatContents : x.kind = "absent"}}

(* part?.text || part?.content || "" *)
PartText(part) ==
  IF part.text # {} /\ TheString(part.text) # <<>> THEN TheString(part.text)
  ELSE IF part.content # {} /\ TheString(part.content) # <<>> THEN TheString(part.content)
  ELSE <<>>

extractMessageContent(content) ==
  IF content.kind = "string" THEN content.text
  ELSE IF content.kind = "array"
  THEN Trim(Flatten([i \in DOMAIN content.parts |-> PartText(content.parts[i])]))
  ELSE <<>>

ErrorBody(message) == [NoBody EXCEPT !.keys = {"error"}, !.error = message]
SummaryBody(summary) == [NoBody EXCEPT !.keys = {"summary"}, !.summary = summary]

FallbackBodyWithoutWarning(text) ==
  [NoBody EXCEPT !.keys = {"summary", "source"}, !.summary = buildLocalSummary(text),
                 !.source = "local-fallback"]

(* The body of the catch block of POST. *)
FallbackBody(text) ==
  [keys |-> {"summary", "warning", "source"}, summary |-> buildLocalSummary(text),
   warning |-> FALLBACK_COPY[detectLanguage(text)].warning, source |-> "local-fallback",
   error |-> ""]

transcriptionVars ==
  <<history, pc, fileVars, uploadResult, recordedHistory, mediaVars, dispatchVars, endVars,
    calls, putBody, faults, stages, tempDirs>>

(* NextResponse.json(body, { status }) ends the request. *)
SummarizeRespond(status, body) ==
  summarize' = [summarize EXCEPT !.pc = "done", !.status = status, !.responseBody = body]

(* req.json(), the checks of the transcript and of the API key, then the  *)
(* fetch of the completion endpoint.                                      *)
SummarizeReceive ==
  /\ summarize.pc = "idle"
  /\ \E b \in SummarizeBodies :
       IF ~b.json
       THEN SummarizeRespond(400, ErrorBody("Invalid JSON payload."))
       ELSE IF b.transcript.kind # "string" \/ b.transcript.text = <<>>
       THEN summarize' = [summarize EXCEPT !.pc = "done", !.body = b, !.status = 400,
                            !.responseBody = ErrorBody("Transcript is required.")]
       ELSE IF Trim(b.transcript.text) = <<>>
       THEN summarize' = [summarize EXCEPT !.pc = "done", !.body = b, !.status = 400,
                            !.responseBody = ErrorBody("Transcript cannot be empty.")]
       ELSE IF "APIMART_API_KEY" \notin environ
       THEN summarize' = [summarize EXCEPT !.pc = "done", !.body = b, !.status = 500,
                            !.trimmedTranscript = Trim(b.transcript.text),
                            !.responseBody = ErrorBody("APIMART_API_KEY is not configured.")]
       ELSE summarize' = [summarize EXCEPT !.pc = "awaiting", !.body = b,
                            !.trimmedTranscript = Trim(b.transcript.text),
                            !.fetches = @ + 1]
  /\ UNCHANGED <<environ, concurrencyEnv, offered, health, keygen, signing, extraction, transcriptionVars>>

UpstreamErrorAsBadGateway(reply) ==
  [status |-> 502,
   body |-> ErrorBody(IF ~reply.isNull /\ reply.error # {} THEN TheString(reply.error)
                      ELSE "Upstream error (" \o ToString(reply.status) \o ").")]

(* The response sent for a response of the endpoint that is not ok. *)
UpstreamError(reply) ==
  [status |-> reply.status,
   body |-> ErrorBody(IF ~reply.isNull /\ reply.error # {} THEN TheString(reply.error)
                      ELSE "Upstream error (" \o ToString(reply.status) \o ").")]

(* The fetch settles: what follows it in the try block, or the catch.     *)
SummarizeUpstream ==
  /\ summarize.pc = "awaiting"
  /\ \E reply \in ChatReplies :
       LET text == summarize.trimmedTranscript
           sent(status, body, threw) ==
             summarize' = [summarize EXCEPT !.pc = "done", !.upstream = reply,
                             !.threw = threw, !.status = status, !.responseBody = body]
       IN  IF ~reply.reached \/ ~reply.json
           THEN sent(200, FallbackBody(text), TRUE)
           ELSE IF reply.status < 200 \/ reply.status > 299
           THEN sent(UpstreamError(reply).status, UpstreamError(reply).body, FALSE)
           ELSE IF reply.isNull
           THEN sent(200, FallbackBody(text), TRUE)
           ELSE IF extractMessageContent(reply.content) = <<>>
           THEN sent(502, ErrorBody("No content returned from the AI model."), FALSE)
           ELSE sent(200, SummaryBody(extractMessageContent(reply.content)), FALSE)
  /\ UNCHANGED <<environ, concurrencyEnv, offered, health, keygen, signing, extraction, transcriptionVars>>

SummarizeInit ==
  /\ environ \in {REQUIRED_ENV_VARS \cup BaseFlags,
                  (REQUIRED_ENV_VARS \ {"APIMART_API_KEY"}) \cup BaseFlags}
  /\ concurrencyEnv = 0
  /\ offered = [r \in Reqs |-> {}]
  /\ Blank
  /\ summarize = SummarizeIdle
  /\ health = HealthIdle
  /\ keygen = KeygenIdle
  /\ signing = SigningIdle
  /\ extraction = ExtractionIdle

SummarizeNext == SummarizeReceive \/ SummarizeUpstream

SummarizeSpec == SummarizeInit /\ [][SummarizeNext]_vars

(* ------------------------------------------------------------------ *)
(* The health checks                                                     *)
(* ------------------------------------------------------------------ *)
HEALTH_REQUIRED_ENV_VARS ==
  {"APIMART_API_KEY", "OSS_REGION", "OSS_BUCKET", "OSS_ACCESS_KEY_ID",
   "OSS_ACCESS_KEY_SECRET"}

checkEnvironmentIgnoringApiKey ==
  IF (HEALTH_REQUIRED_ENV_VARS \ {"APIMART_API_KEY"}) \ environ # {}
  THEN LinkFailed("config", FALSE)
  ELSE [LinkOk EXCEPT !.latency = FALSE]

checkEnvironment ==
  IF HEALTH_REQUIRED_ENV_VARS \ environ # {} THEN LinkFailed("config", FALSE)
  ELSE [LinkOk EXCEPT !.latency = FALSE]

otherVars == <<environ, concurrencyEnv, offered, summarize, keygen, signing, extraction, transcriptionVars>>

(* fetchWithTimeout up to its await: the timer is set, the request sent. *)
fetchWithTimeout == [NoCall EXCEPT !.pc = "fetching", !.timer = "armed"]

(* GET /transcription/health up to the await of Promise.all: without the  *)
(* environment both links are settled at once, with it both probes start. *)
HealthGet ==
  /\ health.link.pc = "idle"
  /\ IF checkEnvironment.ok
     THEN health' = [health EXCEPT !.link.pc = "probing", !.link.env = checkEnvironment,
                                   !.link.probes = @ + 2,
                                   !.link.call = [p \in {"oss", "apimart"} |-> fetchWithTimeout]]
     ELSE health' = [health EXCEPT !.link.pc = "settled", !.link.env = checkEnvironment,
                                   !.link.oss = LinkFailed("config", FALSE),
                                   !.link.apimart = LinkFailed("config", FALSE)]
  /\ UNCHANGED otherVars

(* The results of a probe: an ok response, another response, no response. *)
ProbeResults == {LinkOk, LinkFailed("service", TRUE), LinkFailed("service", FALSE)}

BothSettled(link) == IF link.oss.set /\ link.apimart.set THEN "settled" ELSE "probing"

(* The finally of fetchWithTimeout: clearTimeout, which stops a timer    *)
(* that has not fired.                                                   *)
clearTimeout(timer) == IF timer = "armed" THEN "cleared" ELSE timer

(* checkOssConnectivity: the HEAD request settles, with a response or    *)
(* with a rejection; fetchWithTimeout clears the timer either way.       *)
OssProbeDone ==
  /\ health.link.pc = "probing" /\ health.link.call["oss"].pc = "fetching"
  /\ \E result \in ProbeResults :
       health' = [health EXCEPT !.link.oss = result,
                    !.link.call["oss"].pc = "settled",
                    !.link.call["oss"].timer = clearTimeout(@),
                    !.link.call["oss"].responseOk = result.ok,
                    !.link.pc = BothSettled([health.link EXCEPT !.oss = result])]
  /\ UNCHANGED otherVars

(* checkApimartConnectivity, the await of fetchWithTimeout: the fetch    *)
(* resolves once the headers of the response are there, and the probe    *)
(* goes on to read the body; or it rejects, and the probe has failed.    *)
(* fetchWithTimeout clears the timer either way.                         *)
ApimartResponds ==
  /\ health.link.pc = "probing" /\ health.link.call["apimart"].pc = "fetching"
  /\ \/ \E ok \in BOOLEAN :
          health' = [health EXCEPT !.link.call["apimart"].pc = "reading",
                       !.link.call["apimart"].timer = clearTimeout(@),
                       !.link.call["apimart"].responseOk = ok]
     \/ health' = [health EXCEPT !.link.apimart = LinkFailed("service", FALSE),
                      !.link.call["apimart"].pc = "settled",
                      !.link.call["apimart"].timer = clearTimeout(@),
                      !.link.pc = BothSettled([health.link EXCEPT
                                                 !.apimart = LinkFailed("service", FALSE)])]
  /\ UNCHANGED otherVars

(* checkApimartConnectivity, the await of response.text(): the body is   *)
(* there, or reading it fails.                                           *)
ApimartProbeDone ==
  /\ health.link.pc = "probing" /\ health.link.call["apimart"].pc = "reading"
  /\ \E result \in {IF health.link.call["apimart"].responseOk
                     THEN LinkOk ELSE LinkFailed("service", TRUE),
                     LinkFailed("service", FALSE)} :
       health' = [health EXCEPT !.link.apimart = result,
                    !.link.call["apimart"].pc = "settled",
                    !.link.pc = BothSettled([health.link EXCEPT !.apimart = result])]
  /\ UNCHANGED otherVars

(* PROBE_TIMEOUT_MS have passed since a probe called fetchWithTimeout.   *)
(* A timer that is still set fires: controller.abort() rejects the       *)
(* pending fetch with an AbortError, which the catch of the probe turns  *)
(* into a failed link. A timer that was cleared does nothing.            *)
ProbeDeadline(p) ==
  /\ health.link.pc \in {"probing", "settled"}
  /\ health.link.call[p].pc # "idle" /\ ~health.link.call[p].elapsed
  /\ LET call == health.link.call[p]
         passed == [call EXCEPT !.elapsed = TRUE,
                                !.unanswered = call.pc \in {"fetching", "reading"}]
     IN IF call.timer = "armed"
        THEN health' = [health EXCEPT
                          !.link.call[p] = [passed EXCEPT !.timer = "fired", !.aborted = TRUE,
                                                          !.pc = "settled"],
                          !.link[p] = LinkFailed("service", FALSE),
                          !.link.pc = BothSettled([health.link EXCEPT
                                                     ![p] = LinkFailed("service", FALSE)])]
        ELSE health' = [health EXCEPT !.link.call[p] = passed]
  /\ UNCHANGED otherVars

(* Promise.all has resolved: the response. *)
HealthRespond ==
  /\ health.link.pc = "settled"
  /\ health' = [health EXCEPT !.link.pc = "done",
                  !.link.ok = health.link.env.ok /\ health.link.oss.ok /\ health.link.apimart.ok]
  /\ UNCHANGED otherVars

(* GET /summarize/health: the key of the provider, then the probe. *)
ProviderHealthGet ==
  /\ health.provider.pc = "idle"
  /\ \E apiKey \in BOOLEAN :
       IF ~apiKey
       THEN health' = [health EXCEPT !.provider.pc = "done", !.provider.status = 500,
                                     !.provider.keys = {"ok", "reason"}]
       ELSE health' = [health EXCEPT !.provider.pc = "probing", !.provider.apiKey = TRUE,
                                     !.provider.probes = @ + 1]
  /\ UNCHANGED otherVars

(* The probe of the provider settles: no response, a response that is not *)
(* ok, an ok response without JSON, an ok response.                       *)
ProviderProbeDone ==
  /\ health.provider.pc = "probing"
  /\ \E result \in
         {[status |-> 503, keys |-> {"ok", "reason"}, ok |-> FALSE],
          [status |-> 429, keys |-> {"ok", "reason", "upstreamStatus"}, ok |-> FALSE],
          [status |-> 502, keys |-> {"ok", "reason"}, ok |-> FALSE],
          [status |-> 200, keys |-> {"ok", "latency", "model", "provider", "message"},
           ok |-> TRUE]} :
       health' = [health EXCEPT !.provider.pc = "done", !.provider.status = result.status,
                                !.provider.keys = result.keys, !.provider.ok = result.ok]
  /\ UNCHANGED otherVars

HealthInit ==
  /\ environ \in {p \cup BaseFlags : p \in SUBSET REQUIRED_ENV_VARS}
  /\ concurrencyEnv = 0
  /\ offered = [r \in Reqs |-> {}]
  /\ Blank
  /\ summarize = SummarizeIdle
  /\ health = HealthIdle
  /\ keygen = KeygenIdle
  /\ signing = SigningIdle
  /\ extraction = ExtractionIdle

HealthNext ==
  \/ HealthGet
  \/ OssProbeDone
  \/ ApimartResponds
  \/ ApimartProbeDone
  \/ \E p \in {"oss", "apimart"} : ProbeDeadline(p)
  \/ HealthRespond
  \/ ProviderHealthGet
  \/ ProviderProbeDone

HealthSpec == HealthInit /\ [][HealthNext]_vars

(* ------------------------------------------------------------------ *)
(* buildObjectKey on file names as texts                                 *)
(* ------------------------------------------------------------------ *)
(* The characters of a file name: a lower-case letter, an upper-case     *)
(* letter, a digit, a blank, a sign, a hyphen, the dot and the slash.    *)
NameChars == {"a", "B", "7", "SP", "#", "-", ".", "/"}

TextsUpTo(alphabet, n) == UNION {[1..k -> alphabet] : k \in 0..n}

(* The names of the model: every name of up to MaxNameLen characters,    *)
(* and long names, 38 to 40 letters followed by up to two characters and *)
(* an extension.                                                         *)
FileNames ==
  TextsUpTo(NameChars, MaxNameLen)
    \cup {<<"B", "a", "SP", "B", "a", "SP", "#", "7", ".", "a">>}
    \cup {Repeat(<<"a">>, k) \o t \o <<".", "a">> :
            k \in 38..40, t \in TextsUpTo({"a", "SP", "-"}, MaxNameLen - 1)}

LastDot(text) ==
  IF \E i \in DOMAIN text : text[i] = "."
  THEN CHOOSE i \in DOMAIN text : text[i] = "." /\ \A k \in (i + 1)..Len(text) : text[k] # "."
  ELSE 0

(* filename.split(".").pop(): what follows the last dot, the whole name  *)
(* when it has no dot.                                                   *)
LastPiece(text) == SubSeq(text, LastDot(text) + 1, Len(text))

(* filename.replace(/\.[^/.]+$/, ""): a last dot followed by one or more *)
(* characters other than a slash is cut off with what follows it.        *)
WithoutExtension(text) ==
  IF /\ LastDot(text) > 0
     /\ LastDot(text) < Len(text)
     /\ \A k \in (LastDot(text) + 1)..Len(text) : text[k] # "/"
  THEN SubSeq(text, 1, LastDot(text) - 1)
  ELSE text

toLowerCase(text) == [i \in DOMAIN text |-> IF text[i] = "B" THEN "b" ELSE text[i]]

IsAlnum(c) == c \in {"a", "b", "7"}

(* text.replace(/[^a-z0-9]+/g, "-") *)
Hyphenated(text) ==
  LET kept == {i \in DOMAIN text : IsAlnum(text[i]) \/ i = 1 \/ IsAlnum(text[i - 1])}
  IN  [k \in DOMAIN Sorted(kept) |->
         IF IsAlnum(text[Sorted(kept)[k]]) THEN text[Sorted(kept)[k]] ELSE "-"]

(* text.replace(/^-+|-+$/g, "") *)
WithoutOuterHyphens(text) ==
  IF \A i \in DOMAIN text : text[i] = "-" THEN <<>>
  ELSE SubSeq(text,
              CHOOSE i \in DOMAIN text : text[i] # "-" /\ \A k \in 1..(i - 1) : text[k] = "-",
              CHOOSE i \in DOMAIN text :
                text[i] # "-" /\ \A k \in (i + 1)..Len(text) : text[k] = "-")

safeBaseOf(filename) ==
  Slice(WithoutOuterHyphens(Hyphenated(toLowerCase(WithoutExtension(filename)))), 0, 40)

(* The key, with the time stamp and the random id as single characters. *)
buildObjectKey(filename) ==
  <<"uploads/audio/", "{Date.now()}", "-", "{8 hex}">>
    \o (IF safeBaseOf(filename) # <<>> THEN <<"-">> \o safeBaseOf(filename) ELSE <<>>)
    \o (IF LastPiece(filename) # <<>> THEN <<".">> \o LastPiece(filename) ELSE <<>>)

(* One call of buildObjectKey. *)
BuildKey ==
  /\ keygen.pc = "idle"
  /\ keygen' = [keygen EXCEPT !.pc = "done", !.safeBase = safeBaseOf(keygen.filename),
                              !.ext = LastPiece(keygen.filename),
                              !.key = buildObjectKey(keygen.filename)]
  /\ UNCHANGED <<environ, concurrencyEnv, offered, summarize, health, signing, extraction, transcriptionVars>>

KeyInit ==
  /\ environ = REQUIRED_ENV_VARS \cup BaseFlags
  /\ concurrencyEnv = 0
  /\ offered = [r \in Reqs |-> {}]
  /\ Blank
  /\ summarize = SummarizeIdle
  /\ health = HealthIdle
  /\ \E name \in FileNames : keygen = [KeygenIdle EXCEPT !.filename = name]
  /\ signing = SigningIdle
  /\ extraction = ExtractionIdle

KeyNext == BuildKey

KeySpec == KeyInit /\ [][KeyNext]_vars

(* ------------------------------------------------------------------ *)
(* uploadToOSS: the canonical string and the signature                 *)
(* ------------------------------------------------------------------ *)
(* What one upload signs with: the type of the file, the clock, the     *)
(* key of the object and the OSS settings of the process. An unset      *)
(* setting and an empty file type are the empty text.                   *)
SignFieldValues ==
  [type       |-> {<<>>, <<"audio/mpeg">>, <<"application/octet-stream">>},
   date       |-> {<<"Sun, 01 Nov 2026 10:00:00 GMT">>, <<"Sun, 01 Nov 2026 10:00:01 GMT">>},
   bucket     |-> {<<"media">>, <<"media-eu">>},
   key        |-> {<<"uploads/audio/1-0a-talk.mp3">>, <<"uploads/audio/1-0b-talk.mp3">>},
   secret     |-> {<<"secret-1">>, <<"secret-2">>},
   acl        |-> {<<>>, <<"public-read">>, <<"private">>},
   disableAcl |-> BOOLEAN,
   publicBase |-> BOOLEAN]

SignFields == DOMAIN SignFieldValues

SignInputs ==
  [type : SignFieldValues.type, date : SignFieldValues.date, bucket : SignFieldValues.bucket,
   key : SignFieldValues.key, secret : SignFieldValues.secret, acl : SignFieldValues.acl,
   disableAcl : SignFieldValues.disableAcl, publicBase : SignFieldValues.publicBase]

(* file.type || "application/octet-stream" *)
contentTypeOf(up) == IF up.type # <<>> THEN up.type ELSE <<"application/octet-stream">>

(* The headers of the PUT before Authorization is added, as name and   *)
(* value pairs; Content-Length is the length of the buffer.            *)
headersOf(up) ==
  {[name |-> "Date", value |-> up.date],
   [name |-> "Content-Type", value |-> contentTypeOf(up)],
   [name |-> "Content-Length", value |-> <<"{buffer.length}">>]}
    \cup (IF ~up.disableAcl /\ ~up.publicBase
          THEN {[name |-> "x-oss-object-acl",
                 value |-> IF up.acl # <<>> THEN up.acl ELSE <<"public-read">>]}
          ELSE {})

(* key.toLowerCase() of a header name, and its place in the sort of    *)
(* the names that start with x-oss-.                                   *)
LowerHeaderName(name) ==
  CASE name = "Date" -> "date"
    [] name = "Content-Type" -> "content-type"
    [] name = "Content-Length" -> "content-length"
    [] OTHER -> name

StartsWithXOss(name) == LowerHeaderName(name) \in {"x-oss-object-acl"}

HeaderRank(name) == IF name = "x-oss-object-acl" THEN 1 ELSE 0

(* Object.keys(headers).filter(...).sort().map(...).join("\n") *)
canonicalHeadersOf(headers) ==
  LET oss   == {h \in headers : StartsWithXOss(h.name)}
      ranks == Sorted({HeaderRank(h.name) : h \in oss})
      at(k) == CHOOSE h \in oss : HeaderRank(h.name) = ranks[k]
      line(k) == <<LowerHeaderName(at(k).name), ":">> \o at(k).value
  IN  JoinWith([k \in DOMAIN ranks |-> line(k)], <<"\n">>)

canonicalResourceOf(up) == <<"/">> \o up.bucket \o <<"/">> \o up.key

canonicalStringWithoutDate(up) ==
  JoinWith(<<<<"PUT">>, <<>>, contentTypeOf(up),
             IF canonicalHeadersOf(headersOf(up)) # <<>>
             THEN canonicalHeadersOf(headersOf(up)) \o <<"\n">> \o canonicalResourceOf(up)
             ELSE canonicalResourceOf(up)>>, <<"\n">>)

canonicalStringOf(up) ==
  JoinWith(<<<<"PUT">>, <<>>, contentTypeOf(up), up.date,
             IF canonicalHeadersOf(headersOf(up)) # <<>>
             THEN canonicalHeadersOf(headersOf(up)) \o <<"\n">> \o canonicalResourceOf(up)
             ELSE canonicalResourceOf(up)>>, <<"\n">>)

(* createHmac("sha1", secret).update(text).digest("base64"): the digest *)
(* is kept as the term it is computed from, one digest for one pair of  *)
(* secret and text.                                                     *)
HmacSha1Base64(secret, text) == [hmac |-> "sha1", secret |-> secret, text |-> text]

signatureOf(up) == HmacSha1Base64(up.secret, canonicalStringOf(up))

Signed(up) == [canonicalString |-> canonicalStringOf(up), signature |-> signatureOf(up)]

(* The first and the second upload compute their signatures. *)
SignFirst ==
  /\ signing.pc = "idle"
  /\ signing' = [signing EXCEPT !.pc = "first", !.first = Signed(signing.a)]
  /\ UNCHANGED <<environ, concurrencyEnv, offered, summarize, health, keygen, extraction, transcriptionVars>>

SignSecond ==
  /\ signing.pc = "first"
  /\ signing' = [signing EXCEPT !.pc = "done", !.second = Signed(signing.b)]
  /\ UNCHANGED <<environ, concurrencyEnv, offered, summarize, health, keygen, extraction, transcriptionVars>>

(* Two uploads whose values are the same or differ in one of them. *)
SignInit ==
  /\ environ = REQUIRED_ENV_VARS \cup BaseFlags
  /\ concurrencyEnv = 0
  /\ offered = [r \in Reqs |-> {}]
  /\ Blank
  /\ summarize = SummarizeIdle
  /\ health = HealthIdle
  /\ keygen = KeygenIdle
  /\ extraction = ExtractionIdle
  /\ \E up \in SignInputs, f \in SignFields :
       \E v \in SignFieldValues[f] :
         signing = [SigningIdle EXCEPT !.a = up, !.b = [up EXCEPT ![f] = v]]

SignNext == SignFirst \/ SignSecond

SignSpec == SignInit /\ [][SignNext]_vars

(* ------------------------------------------------------------------ *)
(* extractApimartTranscript on the bodies of the speech API             *)
(* ------------------------------------------------------------------ *)
(* A field of a body: absent (or no string), the empty string, or a     *)
(* text that names the field it stands in.                              *)
FieldValues(name) == {{}, {<<>>}, {<<name>>}}

NestedBodies ==
  {NoJson.data, [NoJson.data EXCEPT !.truthy = TRUE, !.str = {<<"data">>}]}
    \cup {[NoJson.data EXCEPT !.truthy = TRUE, !.text = t, !.transcription = tr, !.result = re] :
            t \in FieldValues("data.text"), tr \in FieldValues("data.transcription"),
            re \in FieldValues("data.result")}

ChoiceLists ==
  {<<>>} \cup {<<[content |-> c]>> : c \in FieldValues("choices[0].message.content")}

SegmentLists ==
  {<<>>,
   <<[text |-> {<<"segment">>}, content |-> {}]>>,
   <<[text |-> {<<>>}, content |-> {<<"content">>}]>>,
   <<[text |-> {<<>>}, content |-> {}], [text |-> {<<"segment">>}, content |-> {}],
     [text |-> {}, content |-> {<<"content">>}]>>}

(* null, a string, or an object with any of the fields the function reads. *)
ApimartBodies ==
  {[NoJson EXCEPT !.null = TRUE], [NoJson EXCEPT !.str = {<<>>}], [NoJson EXCEPT !.str = {<<"body">>}]}
    \cup {[NoJson EXCEPT !.text = t, !.transcription = tr, !.result = re, !.data = d,
                         !.choices = c, !.isSegments = TRUE, !.segments = sg] :
            t \in FieldValues("text"), tr \in FieldValues("transcription"),
            re \in FieldValues("result"), d \in NestedBodies, c \in ChoiceLists,
            sg \in SegmentLists}
    \cup {[NoJson EXCEPT !.data = d, !.choices = c] : d \in NestedBodies, c \in ChoiceLists}

ExtractCall ==
  /\ extraction.pc = "idle"
  /\ extraction' = [extraction EXCEPT !.pc = "done",
                                      !.transcript = extractApimartTranscript(extraction.data)]
  /\ UNCHANGED <<environ, concurrencyEnv, offered, summarize, health, keygen, signing,
                 transcriptionVars>>

ExtractInit ==
  /\ environ = REQUIRED_ENV_VARS \cup BaseFlags
  /\ concurrencyEnv = 0
  /\ offered = [r \in Reqs |-> {}]
  /\ Blank
  /\ summarize = SummarizeIdle
  /\ health = HealthIdle
  /\ keygen = KeygenIdle
  /\ signing = SigningIdle
  /\ \E body \in ApimartBodies : extraction = [ExtractionIdle EXCEPT !.data = body]

ExtractNext == ExtractCall

ExtractSpec == ExtractInit /\ [][ExtractNext]_vars

(* ------------------------------------------------------------------ *)
(* Specifications                                                       *)
(* ------------------------------------------------------------------ *)
Next ==
  \E r \in Reqs :
    \/ Receive(r)
    \/ FetchDone(r)
    \/ CheckFile(r)
    \/ ConvertDone(r)
    \/ Validate(r)
    \/ UploadDone(r)
    \/ Optimize(r)
    \/ OptimizeDone(r)
    \/ Segment(r)
    \/ SegmentDone(r)
    \/ SegmentCleanup(r)
    \/ TranscribeStart(r)
    \/ SingleDone(r)
    \/ \E w \in 1..MaxConcurrency : WorkerStep(r, w)
    \/ PoolResolved(r)
    \/ RecordUpload(r)
    \/ InsertDone(r)

Spec == Init /\ [][Next]_vars

(* The route with AUDIO_SEGMENT_CONCURRENCY set to any text, a number or not. *)
AnySettingInit ==
  /\ environ \in Environments
  /\ concurrencyEnv \in (0..MaxConcurrency) \cup {NaN}
  /\ offered \in Workloads
  /\ Blank
  /\ summarize = SummarizeIdle
  /\ health = HealthIdle
  /\ keygen = KeygenIdle
  /\ signing = SigningIdle
  /\ extraction = ExtractionIdle

AnySettingSpec == AnySettingInit /\ [][Next]_vars

(* segmentAudioFile called by two requests at the same time: each has    *)
(* reached the call with the file that optimizeAudioForTranscription     *)
(* returned; the settings of segmentation are any of the environments.   *)
SegmentInputs ==
  {[name |-> <<"talk", "mp3">>, type |-> AudioMpeg, size |-> s, bytes |-> "original"] :
     s \in {200 * 1024, 20 * MB}}

SegmentInit ==
  /\ environ \in {REQUIRED_ENV_VARS \cup BaseFlags}
                   \cup {REQUIRED_ENV_VARS \cup Toggle(BaseFlags, x) :
                           x \in {"AUDIO_SEGMENT_ENABLED=true", "AUDIO_SEGMENT_DURATION=0"}}
  /\ concurrencyEnv = 0
  /\ offered = [r \in Reqs |-> {}]
  /\ summarize = SummarizeIdle
  /\ health = HealthIdle
  /\ keygen = KeygenIdle
  /\ signing = SigningIdle
  /\ extraction = ExtractionIdle
  /\ history = <<>>
  /\ pc = [r \in Reqs |-> "segment"]
  /\ form = [r \in Reqs |-> [fileEntry |-> NoFile, remoteUrl |-> NoUrl]]
  /\ fileSource = [r \in Reqs |-> "upload"]
  /\ optimizedFile \in [Reqs -> SegmentInputs]
  /\ file = optimizedFile
  /\ transcriptionFile = optimizedFile
  /\ convertedFromVideo = [r \in Reqs |-> FALSE]
  /\ safeFilename = [r \in Reqs |-> <<"audio-file">>]
  /\ uploadResult = [r \in Reqs |-> NoUpload]
  /\ recordedHistory = [r \in Reqs |-> FALSE]
  /\ segmentedFiles = [r \in Reqs |-> <<>>]
  /\ cursor = [r \in Reqs |-> 0]
  /\ results = [r \in Reqs |-> <<>>]
  /\ workers = [r \in Reqs |-> <<>>]
  /\ pool = [r \in Reqs |-> "none"]
  /\ outcome = [r \in Reqs |-> NoOutcome]
  /\ response = [r \in Reqs |-> NoResponse]
  /\ calls = [r \in Reqs |-> NoCalls]
  /\ putBody = [r \in Reqs |-> NoFile]
  /\ replied = [r \in Reqs |-> <<>>]
  /\ faults = [r \in Reqs |-> {}]
  /\ stages = [r \in Reqs |-> <<>>]
  /\ tempDirs = [r \in Reqs |-> NoDir]

SegmentNext == \E r \in Reqs : Segment(r) \/ SegmentDone(r) \/ SegmentCleanup(r)

SegmentSpec == SegmentInit /\ [][SegmentNext]_vars


(* transcribeSegments called with two or more segments, under any        *)
(* setting of the concurrency, with the scheduling the claim of           *)
(* termination assumes: every speech request that was sent is answered   *)
(* (WorkerStep), and a Promise.all whose promises are all fulfilled       *)
(* resolves (PoolResolved).                                               *)
DispatchInit ==
  /\ environ = REQUIRED_ENV_VARS \cup BaseFlags
  /\ concurrencyEnv \in (0..MaxConcurrency) \cup {NaN}
  /\ offered = [r \in Reqs |-> {}]
  /\ summarize = SummarizeIdle
  /\ health = HealthIdle
  /\ keygen = KeygenIdle
  /\ signing = SigningIdle
  /\ extraction = ExtractionIdle
  /\ history = <<>>
  /\ pc = [r \in Reqs |-> IF r = 1 THEN "transcribe" ELSE "idle"]
  /\ form = [r \in Reqs |-> [fileEntry |-> NoFile, remoteUrl |-> NoUrl]]
  /\ fileSource = [r \in Reqs |-> "upload"]
  /\ file = [r \in Reqs |-> NoFile]
  /\ transcriptionFile = [r \in Reqs |-> NoFile]
  /\ convertedFromVideo = [r \in Reqs |-> FALSE]
  /\ safeFilename = [r \in Reqs |-> <<"audio-file">>]
  /\ uploadResult = [r \in Reqs |-> NoUpload]
  /\ recordedHistory = [r \in Reqs |-> FALSE]
  /\ optimizedFile = [r \in Reqs |-> NoFile]
  /\ \E k \in 2..MaxSegments :
       segmentedFiles = [r \in Reqs |-> IF r = 1 THEN [i \in 1..k |-> SegmentFile(i - 1)]
                                        ELSE <<>>]
  /\ cursor = [r \in Reqs |-> 0]
  /\ results = [r \in Reqs |-> <<>>]
  /\ workers = [r \in Reqs |-> <<>>]
  /\ pool = [r \in Reqs |-> "none"]
  /\ outcome = [r \in Reqs |-> NoOutcome]
  /\ response = [r \in Reqs |-> NoResponse]
  /\ calls = [r \in Reqs |-> NoCalls]
  /\ putBody = [r \in Reqs |-> NoFile]
  /\ replied = [r \in Reqs |-> <<>>]
  /\ faults = [r \in Reqs |-> {}]
  /\ stages = [r \in Reqs |-> <<>>]
  /\ tempDirs = [r \in Reqs |-> NoDir]

DispatchNext ==
  \E r \in Reqs :
    \/ TranscribeStart(r)
    \/ \E w \in 1..MaxConcurrency : WorkerStep(r, w)
    \/ PoolResolved(r)

DispatchFairness ==
  \A r \in Reqs :
    /\ WF_vars(PoolResolved(r))
    /\ \A w \in 1..MaxConcurrency : WF_vars(WorkerStep(r, w))

DispatchSpec == DispatchInit /\ [][DispatchNext]_vars /\ DispatchFairness

(* ------------------------------------------------------------------ *)
(* Properties                                                           *)
(* ------------------------------------------------------------------ *)
RowsOf(r) == {i \in 1..Len(history) : history[i].request = r}
SegmentCount(r) == Len(segmentedFiles[r])
AllReplied(r) == \A i \in DOMAIN replied[r] : replied[r][i] # {}
RepliedInOrder(r) ==
  [i \in 1..Cardinality(DOMAIN replied[r]) |-> TheString(replied[r][i - 1])]

C4_FailFast ==
  \A r \in Reqs :
    /\ "speech" \in faults[r] =>
         /\ outcome[r].status = 500
         /\ outcome[r].transcript = <<>>
         /\ response[r].status # 200
         /\ response[r].transcript = <<>>
    /\ outcome[r].status = 200 =>
         \A i \in DOMAIN replied[r] :
           replied[r][i] # {} /\ TheString(replied[r][i]) # <<>>

C4_Witness ==
  \E r \in Reqs :
    /\ "speech" \in faults[r]
    /\ SegmentCount(r) >= 2
    /\ \E i \in DOMAIN results[r] : results[r][i].filled
    /\ pc[r] = "done"

C4_WitnessSingle ==
  \E r \in Reqs : "speech" \in faults[r] /\ SegmentCount(r) = 1 /\ pc[r] = "done"


(* The input of the request is classified as audio and is at most 50MB. *)
AudioInput(r) ==
  file[r] # NoFile /\ isAudioFile(file[r]) /\ file[r].size <= MAX_FILE_SIZE

(* A history row is a completed one of a request that produced a        *)
(* transcript, or a failed one with an error message.                   *)
RowShape(r, i) ==
  \/ /\ history[i].status = "completed"
     /\ outcome[r].status = 200
     /\ outcome[r].transcript # <<>>
     /\ pc[r] = "done" => response[r].status = 200 /\ response[r].transcript # <<>>
  \/ /\ history[i].status = "failed"
     /\ history[i].error_message # ""
     /\ outcome[r].status = 500
     /\ pc[r] = "done" => response[r].status = 500

(* The insert of the request is attempted and succeeds. *)
Recordable(r) == isHistoryEnabled /\ uploadResult[r].set /\ "insert" \notin faults[r]

C3_InsertOncePerRequest ==
  \A r \in Reqs :
    /\ calls[r].insert <= 1
    /\ Cardinality(RowsOf(r)) <= calls[r].insert
    /\ recordedHistory[r] <=> calls[r].insert = 1
    /\ pc[r] = "done" /\ isHistoryEnabled /\ uploadResult[r].set => calls[r].insert = 1

C3_Witness ==
  /\ pc[1] = "inserting"
  /\ pc[2] = "record"
  /\ recordedHistory[1]
  /\ uploadResult[2].set
  /\ outcome[1].status # outcome[2].status

(* C5, as claimed: a finished request whose upload or link succeeded and *)
(* whose speech request failed has a 500 response with the error message *)
(* and exactly one history row, failed, with that message.               *)
C5_FailedRowAlways ==
  \A r \in Reqs :
    pc[r] = "done" /\ uploadResult[r].set /\ "speech" \in faults[r] =>
      /\ response[r].status = 500
      /\ response[r].error # ""
      /\ Cardinality(RowsOf(r)) = 1
      /\ \A i \in RowsOf(r) :
           history[i].status = "failed" /\ history[i].error_message = response[r].error

(* C5, amended: such a request has a 500 response with a non-empty error *)
(* message and at most one history row, failed, with that message; the   *)
(* row is there exactly when history is enabled and the insert did not   *)
(* fail.                                                                 *)
C5_FailedRowWhenRecordable ==
  \A r \in Reqs :
    pc[r] = "done" /\ uploadResult[r].set /\ "speech" \in faults[r] =>
      /\ response[r].status = 500
      /\ response[r].error # ""
      /\ Cardinality(RowsOf(r)) = (IF Recordable(r) THEN 1 ELSE 0)
      /\ \A i \in RowsOf(r) :
           history[i].status = "failed" /\ history[i].error_message = response[r].error

C5_Witness ==
  \E r \in Reqs :
    /\ pc[r] = "done"
    /\ "speech" \in faults[r]
    /\ SegmentCount(r) = 1
    /\ response[r].status = 500
    /\ \E i \in RowsOf(r) : history[i].error_message = MsgApimartFailed

(* C6: a request answered with 400 carries an error message, has written *)
(* no history row and attempted none, and has sent neither a PUT to the  *)
(* object store nor a request to the speech API.                         *)
C6_RejectedTouchesNothing ==
  \A r \in Reqs :
    response[r].status = 400 =>
      /\ response[r].error # ""
      /\ RowsOf(r) = {}
      /\ calls[r].insert = 0
      /\ calls[r].put = 0
      /\ calls[r].speech = 0
      /\ ~uploadResult[r].set

C6_Witness ==
  \E r \in Reqs :
    /\ response[r].status = 400
    /\ response[r].error = MsgTooLarge
    /\ form[r].fileEntry # NoFile

C6_WitnessNoFile == \E r \in Reqs : response[r].status = 400 /\ response[r].error = MsgNoFile
C6_WitnessNotAudio == \E r \in Reqs : response[r].status = 400 /\ response[r].error = MsgNotAudio

(* C7: with a required environment variable missing, a request that has  *)
(* been taken up has failed with status 500 and has made no outbound     *)
(* call: no remote fetch, no PUT, no speech request, no insert, and no   *)
(* transcoder has been started.                                          *)
C7_MissingEnvFailsFirst ==
  \A r \in Reqs :
    (REQUIRED_ENV_VARS \ environ) # {} /\ pc[r] # "idle" =>
      /\ calls[r] = NoCalls
      /\ pc[r] \in {"record", "done"}
      /\ outcome[r].status = 500
      /\ pc[r] = "done" => response[r].status = 500 /\ response[r].error = MsgMissingEnv
      /\ RowsOf(r) = {}

C7_Witness ==
  \E r \in Reqs :
    /\ "APIMART_API_KEY" \in environ
    /\ "OSS_BUCKET" \notin environ
    /\ pc[r] = "done"
    /\ response[r].status = 500


StageNames ==
  {"received", "validated", "video-converted", "uploaded-or-linked", "optimized",
   "segmented", "transcribed", "recorded(completed)", "recorded(failed)"}

(* The order of the stages as the state machine of the design gives it. *)
ClaimedRank ==
  [s \in StageNames |->
     CASE s = "received" -> 1
       [] s = "validated" -> 2
       [] s = "video-converted" -> 3
       [] s = "uploaded-or-linked" -> 4
       [] s = "optimized" -> 5
       [] s = "segmented" -> 6
       [] s = "transcribed" -> 7
       [] OTHER -> 8]

(* The same order with the video conversion before the end of validation. *)
ConversionFirstRank ==
  [ClaimedRank EXCEPT !["video-converted"] = 2, !["validated"] = 3]

InOrder(seq, rank) ==
  \A i, j \in 1..Len(seq) : i < j => rank[seq[i]] < rank[seq[j]]

Reached(r, stage) == \E i \in 1..Len(stages[r]) : stages[r][i] = stage

(* A failed conversion, upload or transcription ends the request with    *)
(* 500 and nothing of a later stage has run.                             *)
ShortCircuit(r) ==
  /\ "convert" \in faults[r] =>
       /\ outcome[r].status = 500
       /\ calls[r].put = 0 /\ calls[r].speech = 0 /\ calls[r].spawn = 1
       /\ ~uploadResult[r].set
  /\ "put" \in faults[r] =>
       /\ outcome[r].status = 500
       /\ calls[r].speech = 0
       /\ ~Reached(r, "uploaded-or-linked") /\ ~Reached(r, "optimized")
  /\ "speech" \in faults[r] =>
       /\ outcome[r].status = 500
       /\ ~Reached(r, "transcribed") /\ ~Reached(r, "recorded(completed)")
  /\ pc[r] = "done" /\ outcome[r].status = 500 => response[r].status = 500

(* The outbound calls of a stage are made after the stage before it. *)
StartsInOrder(r) ==
  /\ calls[r].put > 0 \/ uploadResult[r].set => Reached(r, "validated")
  /\ pc[r] \in {"optimizing", "segment", "segmenting"} => Reached(r, "uploaded-or-linked")
  /\ pc[r] = "segmenting" => Reached(r, "optimized")
  /\ calls[r].speech > 0 => Reached(r, "segmented")
  /\ calls[r].insert > 0 /\ outcome[r].status = 200 => Reached(r, "transcribed")

(* C8, as claimed: the stages of a request are passed in the order       *)
(* received, validated, video-converted, uploaded-or-linked, optimized,  *)
(* segmented, transcribed, recorded; the video conversion starts only    *)
(* after validation; a failed stage ends the request with 500 and no     *)
(* later stage runs.                                                     *)
C8_ValidatedBeforeConversion ==
  \A r \in Reqs :
    /\ InOrder(stages[r], ClaimedRank)
    /\ pc[r] = "converting" => Reached(r, "validated")
    /\ ShortCircuit(r)
    /\ StartsInOrder(r)

(* C8, amended: the stages are passed in the order received,             *)
(* video-converted, validated, uploaded-or-linked, optimized, segmented, *)
(* transcribed, recorded: a video is converted before the type and size  *)
(* checks are made; otherwise no stage starts before the one before it   *)
(* has finished, and a failed conversion, upload or transcription ends   *)
(* the request with 500 without any later stage.                         *)
C8_ConversionBeforeValidated ==
  \A r \in Reqs :
    /\ InOrder(stages[r], ConversionFirstRank)
    /\ pc[r] = "converting" => ~Reached(r, "validated")
    /\ ShortCircuit(r)
    /\ StartsInOrder(r)

C8_Witness ==
  \E r \in Reqs :
    /\ pc[r] = "done"
    /\ stages[r] = <<"received", "video-converted", "validated", "uploaded-or-linked",
                     "optimized", "segmented", "transcribed", "recorded(completed)">>

C8_WitnessFailedUpload ==
  \E r \in Reqs : pc[r] = "done" /\ "put" \in faults[r] /\ convertedFromVideo[r]

(* The request has got past the conversion step of POST. *)
PastConversion(r) ==
  file[r] # NoFile /\ pc[r] \notin {"idle", "fetching", "checkfile", "converting"}

StoredOrLinked(r) == calls[r].put > 0 \/ uploadResult[r].set

C10_StoredFileIsTranscribedFile ==
  \A r \in Reqs : calls[r].put > 0 => putBody[r] = transcriptionFile[r]


(* The request took its file from the fileUrl of the form. *)
LinkedRequest(r) == fileSource[r] = "url" /\ uploadResult[r].set

(* The values of the object descriptor are the ones answered and recorded. *)
DescriptorIsReported(r) ==
  /\ uploadResult[r].url = <<form[r].remoteUrl.href>>
  /\ response[r].status = 200 =>
       /\ response[r].audioUrl = uploadResult[r].url
       /\ response[r].objectKey = uploadResult[r].key
  /\ \A i \in RowsOf(r) :
       /\ history[i].audio_url = uploadResult[r].url
       /\ history[i].object_key = uploadResult[r].key

(* C11, as claimed: a request whose source is the remote URL issues no   *)
(* PUT; its descriptor's URL is the given URL and its key the decoded    *)
(* path of that URL; these are the values answered as audioUrl and       *)
(* objectKey and written to the history record.                          *)
C11_KeyIsDecodedPath ==
  \A r \in Reqs :
    /\ fileSource[r] = "url" => calls[r].put = 0
    /\ LinkedRequest(r) =>
         /\ DescriptorIsReported(r)
         /\ CanDecode(WithoutLeadingSlash(form[r].remoteUrl.pathname))
         /\ uploadResult[r].key =
              decodeURIComponent(WithoutLeadingSlash(form[r].remoteUrl.pathname))

(* C11, amended: the same, the key being the decoded path without its    *)
(* leading slash when the path can be decoded and the given URL itself   *)
(* when it cannot.                                                       *)
C11_KeyIsDecodedPathOrUrl ==
  \A r \in Reqs :
    /\ fileSource[r] = "url" => calls[r].put = 0
    /\ LinkedRequest(r) =>
         /\ DescriptorIsReported(r)
         /\ uploadResult[r].key =
              IF \E i \in DOMAIN form[r].remoteUrl.pathname :
                   Malformed(WithoutLeadingSlash(form[r].remoteUrl.pathname)[i])
              THEN <<form[r].remoteUrl.href>>
              ELSE decodeURIComponent(WithoutLeadingSlash(form[r].remoteUrl.pathname))

C11_Witness ==
  \E r \in Reqs :
    /\ LinkedRequest(r)
    /\ response[r].status = 200
    /\ response[r].objectKey = <<"rec/my talk", "mp3">>
    /\ RowsOf(r) # {}

C11_WitnessUndecodable ==
  \E r \in Reqs :
    /\ LinkedRequest(r)
    /\ response[r].status = 200
    /\ response[r].objectKey = <<"https://cdn.example.com/rec/50%.mp3">>
    /\ RowsOf(r) # {}


Oversized(r) == file[r] # NoFile /\ file[r].size > 50 * 1024 * 1024

(* C12, as claimed: a directly uploaded file of more than 50MB is        *)
(* answered with 400, and a request whose file came from a remote URL is *)
(* never answered with the size error.                                   *)
C12_SizeLimitForUploadsOnly ==
  \A r \in Reqs :
    /\ fileSource[r] = "upload" /\ Oversized(r) /\ pc[r] = "done" =>
         response[r].status = 400
    /\ fileSource[r] = "url" => response[r].error # MsgTooLarge

(* C12, amended: the limit holds for both sources. A request whose file, *)
(* uploaded or fetched, is larger than 50MB never reaches the object     *)
(* store or the speech API: it ends with 400 (size error, or type error  *)
(* when the file is not audio) or with 500 when its video conversion     *)
(* failed; the size error is given for no smaller file; a remote file is *)
(* checked only after it was fetched.                                    *)
C12_SizeLimitForBothSources ==
  \A r \in Reqs :
    /\ Oversized(r) =>
         /\ calls[r].put = 0 /\ calls[r].speech = 0 /\ ~uploadResult[r].set
         /\ pc[r] = "done" =>
              \/ response[r].status = 400 /\ response[r].error = MsgTooLarge
                   /\ isAudioFile(transcriptionFile[r])
              \/ response[r].status = 400 /\ response[r].error = MsgNotAudio
                   /\ ~isAudioFile(transcriptionFile[r])
              \/ response[r].status = 500 /\ response[r].error = MsgNoAudioInVideo
    /\ response[r].error = MsgTooLarge => Oversized(r)
    /\ response[r].error = MsgTooLarge /\ fileSource[r] = "url" => calls[r].fetch = 1

C12_Witness ==
  \E r \in Reqs :
    /\ fileSource[r] = "url"
    /\ Oversized(r)
    /\ response[r].status = 400
    /\ response[r].error = MsgTooLarge

C12_WitnessUpload ==
  \E r \in Reqs :
    /\ fileSource[r] = "upload"
    /\ Oversized(r)
    /\ response[r].status = 400
    /\ response[r].error = MsgTooLarge


(* A URL of the model, a sequence of pieces, is not the empty string. *)
NonEmptyUrl(url) == \E j \in DOMAIN url : url[j] # ""

(* C13: every history record written has a non-empty object URL, the    *)
(* URL of the descriptor of its request (the object-store URL of the     *)
(* upload or the remote URL of the link); so has every completed record. *)
C13_RecordsHaveObjectUrl ==
  \A i \in DOMAIN history :
    /\ NonEmptyUrl(history[i].audio_url)
    /\ uploadResult[history[i].request].set
    /\ history[i].audio_url = uploadResult[history[i].request].url
    /\ \/ fileSource[history[i].request] = "upload" /\ calls[history[i].request].put = 1
       \/ /\ fileSource[history[i].request] = "url"
          /\ history[i].audio_url = <<form[history[i].request].remoteUrl.href>>

C13_Witness ==
  \E i, j \in DOMAIN history :
    /\ history[i].status = "completed"
    /\ fileSource[history[i].request] = "upload"
    /\ history[j].status = "failed"

C13_WitnessLink ==
  \E i \in DOMAIN history :
    /\ history[i].status = "completed"
    /\ history[i].audio_url = <<"https://cdn.example.com/">>


(* C14: when segmentation is disabled, or the file given to              *)
(* segmentAudioFile is not larger than the minimum size (18MB), or the   *)
(* segment duration is not positive, segmentAudioFile returns the list   *)
(* of exactly that file, unchanged, and neither a temporary directory    *)
(* was made nor the segmenting transcoder started.                       *)
C14_SegmentationSkipped ==
  \A r \in Reqs :
    /\ Reached(r, "optimized")
    /\ \/ "AUDIO_SEGMENT_ENABLED=true" \notin environ
       \/ optimizedFile[r].size <= 18 * 1024 * 1024
       \/ "AUDIO_SEGMENT_DURATION=0" \in environ
    => /\ calls[r].mkdtemp = 0
       /\ calls[r].segmenter = 0
       /\ pc[r] # "segmenting"
       /\ "mkdtemp" \notin faults[r] /\ "segment" \notin faults[r]
       /\ Reached(r, "segmented") => segmentedFiles[r] = <<optimizedFile[r]>>

C14_Witness ==
  \E r \in Reqs :
    /\ Reached(r, "segmented")
    /\ "AUDIO_SEGMENT_ENABLED=true" \in environ
    /\ "AUDIO_SEGMENT_DURATION=0" \in environ
    /\ optimizedFile[r].size > 18 * 1024 * 1024
    /\ segmentedFiles[r] = <<optimizedFile[r]>>

C14_WitnessDisabled ==
  \E r \in Reqs :
    /\ Reached(r, "segmented")
    /\ "AUDIO_SEGMENT_ENABLED=true" \notin environ
    /\ optimizedFile[r].size > 18 * 1024 * 1024

C14_WitnessSmall ==
  \E r \in Reqs :
    /\ Reached(r, "segmented")
    /\ "AUDIO_SEGMENT_ENABLED=true" \in environ
    /\ "AUDIO_SEGMENT_DURATION=0" \notin environ
    /\ optimizedFile[r].size <= 18 * 1024 * 1024

C14_WitnessSegmented ==
  \E r \in Reqs : calls[r].mkdtemp = 1 /\ calls[r].segmenter = 1 /\ Len(segmentedFiles[r]) = 2


(* The five section headings of the local summary in a language. *)
SectionHeadings(lang) ==
  <<FALLBACK_COPY[lang].introHeading, FALLBACK_COPY[lang].keypointHeading,
    FALLBACK_COPY[lang].themeHeading, FALLBACK_COPY[lang].cardHeading,
    FALLBACK_COPY[lang].metaHeading>>

(* The text holds the five headings, in their order. *)
PositionsOf(text, heading) == {i \in DOMAIN text : text[i] = heading}

HasSections(text, headings) ==
  \E a \in PositionsOf(text, headings[1]) :
    \E b \in PositionsOf(text, headings[2]) :
      \E c \in PositionsOf(text, headings[3]) :
        \E d \in PositionsOf(text, headings[4]) :
          \E e \in PositionsOf(text, headings[5]) :
            a < b /\ b < c /\ c < d /\ d < e

(* The completion endpoint was called and the call threw: no connection, *)
(* or an answer whose body is not JSON.                                  *)
UpstreamThrew ==
  /\ summarize.pc = "done"
  /\ summarize.fetches = 1
  /\ ~summarize.upstream.reached \/ ~summarize.upstream.json

(* C15: when POST /summarize got a transcript that is not blank and the  *)
(* call of the completion endpoint threw, the response is 200 with       *)
(* source "local-fallback", a non-empty warning and a summary that holds *)
(* the five section headings, whatever the number of sentences.          *)
C15_FallbackHasAllSections ==
  UpstreamThrew =>
    /\ summarize.status = 200
    /\ summarize.responseBody.keys = {"summary", "warning", "source"}
    /\ summarize.responseBody.source = "local-fallback"
    /\ summarize.responseBody.warning # ""
    /\ \E lang \in {"zh", "en"} :
         HasSections(summarize.responseBody.summary, SectionHeadings(lang))

C15_Witness ==
  /\ UpstreamThrew
  /\ ~summarize.upstream.reached
  /\ summarize.trimmedTranscript = <<"w">>

C15_WitnessLong ==
  /\ UpstreamThrew
  /\ Len(splitSentences(summarize.trimmedTranscript, "en")) = MaxSentences


(* The three shapes of a response body of POST /summarize. *)
IsSummaryShape == summarize.responseBody.keys = {"summary"}
IsFallbackShape ==
  /\ summarize.responseBody.keys = {"summary", "warning", "source"}
  /\ summarize.responseBody.source = "local-fallback"
IsErrorShape == summarize.responseBody.keys = {"error"}

(* The body is not JSON, or its transcript is missing, not a string or blank. *)
InvalidInput ==
  \/ ~summarize.body.json
  \/ summarize.body.transcript.kind # "string"
  \/ \A i \in DOMAIN summarize.body.transcript.text :
       summarize.body.transcript.text[i] \in {"SP", "NL", "CR"}

UpstreamOk ==
  /\ summarize.upstream.reached
  /\ summarize.upstream.status >= 200 /\ summarize.upstream.status <= 299

(* C16, as claimed: a response is {summary} when the upstream call       *)
(* succeeded, {summary, warning, source: "local-fallback"} whenever the  *)
(* upstream call failed, and {error} only for a request that fails the   *)
(* input validation.                                                     *)
C16_ErrorOnlyForInvalidInput ==
  summarize.pc = "done" =>
    /\ IsSummaryShape \/ IsFallbackShape \/ IsErrorShape
    /\ IsSummaryShape => summarize.fetches = 1 /\ UpstreamOk
    /\ summarize.fetches = 1 /\ ~UpstreamOk => IsFallbackShape
    /\ IsErrorShape => InvalidInput

(* C16, amended: a response is {summary} with 200 when the endpoint      *)
(* answered 2xx with content; {summary, warning, source} with 200 when   *)
(* the call threw (no connection, a body that is not JSON, a JSON null); *)
(* {error} otherwise: 400 for an invalid input, 500 without an API key,  *)
(* the upstream status for an answer that is not 2xx, 502 for a 2xx      *)
(* answer without content.                                               *)
C16_ThreeShapesByCause ==
  summarize.pc = "done" =>
    LET up == summarize.upstream
        threw == ~up.reached \/ ~up.json \/ (UpstreamOk /\ up.isNull)
    IN  /\ InvalidInput =>
              IsErrorShape /\ summarize.status = 400 /\ summarize.fetches = 0
        /\ ~InvalidInput /\ "APIMART_API_KEY" \notin environ =>
              IsErrorShape /\ summarize.status = 500 /\ summarize.fetches = 0
        /\ ~InvalidInput /\ "APIMART_API_KEY" \in environ =>
              /\ summarize.fetches = 1
              /\ threw => IsFallbackShape /\ summarize.status = 200
              /\ ~threw /\ ~UpstreamOk =>
                   /\ IsErrorShape /\ summarize.status = up.status
                   /\ summarize.responseBody.error # ""
              /\ ~threw /\ UpstreamOk /\ extractMessageContent(up.content) = <<>> =>
                   IsErrorShape /\ summarize.status = 502
              /\ ~threw /\ UpstreamOk /\ extractMessageContent(up.content) # <<>> =>
                   /\ IsSummaryShape /\ summarize.status = 200
                   /\ summarize.responseBody.summary = extractMessageContent(up.content)

C16_Witness ==
  /\ summarize.pc = "done"
  /\ summarize.fetches = 1
  /\ summarize.upstream.status = 429
  /\ IsErrorShape
  /\ summarize.responseBody.error = "quota exceeded"

C16_WitnessSummary ==
  summarize.pc = "done" /\ IsSummaryShape /\ summarize.responseBody.summary = <<"w", ".">>

C16_WitnessNoKey ==
  summarize.pc = "done" /\ summarize.status = 500 /\ IsErrorShape


(* The check of the transcription route has answered and APIMart had no key. *)
LinkCheckedWithoutKey == health.link.pc = "done" /\ "APIMART_API_KEY" \notin environ

(* The check of a chat provider has answered and the provider had no key. *)
ProviderCheckedWithoutKey == health.provider.pc = "done" /\ ~health.provider.apiKey

(* C17, as claimed: a health check made without the API key answers      *)
(* ok:false with an issue classified as config and makes no probe, for   *)
(* the check of the transcription route and for the check of a provider. *)
C17_NoKeyIsConfigIssue ==
  /\ LinkCheckedWithoutKey =>
       /\ ~health.link.ok
       /\ ~health.link.apimart.ok /\ health.link.apimart.issue = "config"
       /\ health.link.probes = 0
  /\ ProviderCheckedWithoutKey =>
       /\ ~health.provider.ok
       /\ "issue" \in health.provider.keys
       /\ health.provider.probes = 0

(* C17, amended: without the key GET /transcription/health answers       *)
(* ok:false with env, oss and apimart all not ok and classified as       *)
(* config, and no probe is made; GET /summarize/health answers 500 with  *)
(* ok:false and a reason, without an issue field, and no probe is made.  *)
C17_NoKeyNoProbe ==
  /\ LinkCheckedWithoutKey =>
       /\ ~health.link.ok
       /\ \A status \in {health.link.env, health.link.oss, health.link.apimart} :
            status.set /\ ~status.ok /\ status.issue = "config" /\ ~status.latency
       /\ health.link.probes = 0
  /\ "APIMART_API_KEY" \notin environ => health.link.pc # "probing"
  /\ ProviderCheckedWithoutKey =>
       /\ ~health.provider.ok
       /\ health.provider.status = 500
       /\ health.provider.keys = {"ok", "reason"}
       /\ health.provider.probes = 0

C17_Witness ==
  /\ LinkCheckedWithoutKey
  /\ REQUIRED_ENV_VARS \ environ = {"APIMART_API_KEY"}
  /\ ProviderCheckedWithoutKey

C17_WitnessProbed ==
  health.link.pc = "done" /\ health.link.probes = 2 /\ health.link.ok

(* ------------------------------------------------------------------ *)
(* C18: the form of the generated object key                            *)
(* ------------------------------------------------------------------ *)
KeyPrefix == <<"uploads/audio/", "{Date.now()}", "-", "{8 hex}">>

KeyBuilt == keygen.pc = "done"

(* The key is the prefix, then the base after a hyphen when there is a  *)
(* base, then the extension after a dot when there is an extension.     *)
KeyIsAssembled ==
  keygen.key = KeyPrefix
                 \o (IF keygen.safeBase # <<>> THEN <<"-">> \o keygen.safeBase ELSE <<>>)
                 \o (IF keygen.ext # <<>> THEN <<".">> \o keygen.ext ELSE <<>>)

BaseIsLowerAlnumOrHyphen == \A i \in DOMAIN keygen.safeBase : keygen.safeBase[i] \in {"a", "b", "7", "-"}

BaseHasNoLeadingHyphen == keygen.safeBase # <<>> => Head(keygen.safeBase) # "-"

BaseHasNoTrailingHyphen == keygen.safeBase # <<>> => keygen.safeBase[Len(keygen.safeBase)] # "-"

(* The extension of a name is what follows its last dot; a name without *)
(* a dot has none.                                                      *)
ExtensionOfName(name) ==
  IF \E i \in DOMAIN name : name[i] = "." THEN SubSeq(name, LastDot(name) + 1, Len(name)) ELSE <<>>

(* C18: for every file name the key is uploads/audio/{time}-{8 hex}, then *)
(* -{base} and .{ext} when present, where the base is lower-case, made of *)
(* letters, digits and hyphens, neither starts nor ends with a hyphen, is *)
(* at most 40 characters long, and the extension is that of the name.     *)
C18_KeyForm ==
  KeyBuilt =>
    /\ KeyIsAssembled
    /\ BaseIsLowerAlnumOrHyphen
    /\ BaseHasNoLeadingHyphen
    /\ BaseHasNoTrailingHyphen
    /\ Len(keygen.safeBase) <= 40
    /\ keygen.ext = ExtensionOfName(keygen.filename)

(* What the key does satisfy for every name: the same, except that a    *)
(* base cut at 40 characters may end with a hyphen and that a name      *)
(* without a dot is repeated whole as the extension.                    *)
KeyFormExceptCutAndDotless ==
  KeyBuilt =>
    /\ KeyIsAssembled
    /\ BaseIsLowerAlnumOrHyphen
    /\ BaseHasNoLeadingHyphen
    /\ Len(keygen.safeBase) < 40 => BaseHasNoTrailingHyphen
    /\ Len(keygen.safeBase) <= 40
    /\ (\E i \in DOMAIN keygen.filename : keygen.filename[i] = ".")
         => keygen.ext = ExtensionOfName(keygen.filename)

(* A name of 39 letters, a blank and more: its base ends with a hyphen. *)
KeyCutAtHyphen ==
  /\ KeyBuilt
  /\ keygen.filename = Repeat(<<"a">>, 39) \o <<"SP", "a">> \o <<".", "a">>
  /\ keygen.safeBase = Repeat(<<"a">>, 39) \o <<"-">>

(* The name shaped like "My Recording #1.wav". *)
KeyOfRecording ==
  /\ KeyBuilt
  /\ keygen.filename = <<"B", "a", "SP", "B", "a", "SP", "#", "7", ".", "a">>
  /\ keygen.key = KeyPrefix \o <<"-", "b", "a", "-", "b", "a", "-", "7", ".", "a">>

(* A name without a dot is appended whole after a dot. *)
KeyOfDotlessName ==
  /\ KeyBuilt
  /\ keygen.filename = <<"B", "a">>
  /\ keygen.key = KeyPrefix \o <<"-", "b", "a", ".", "B", "a">>

(* ------------------------------------------------------------------ *)
(* C19: the signature as a function of secret and canonical string      *)
(* ------------------------------------------------------------------ *)
BothSigned == signing.pc = "done"

(* The values the canonical string is made of, besides the method and   *)
(* the empty Content-MD5, which are the same for every upload.          *)
CanonicalValues(up) ==
  [contentType |-> contentTypeOf(up),
   date        |-> up.date,
   ossHeaders  |-> {h \in headersOf(up) : StartsWithXOss(h.name)},
   bucket      |-> up.bucket,
   key         |-> up.key]

ValuesChanged ==
  {f \in DOMAIN CanonicalValues(signing.a) :
     CanonicalValues(signing.a)[f] # CanonicalValues(signing.b)[f]}

(* C19: two uploads with the same secret and the same canonical values  *)
(* compute the same signature; two uploads that differ in exactly one   *)
(* canonical value sign different strings and, with the same secret,    *)
(* compute different signatures.                                        *)
C19_SignatureFollowsCanonicalString ==
  BothSigned =>
    /\ (ValuesChanged = {} /\ signing.a.secret = signing.b.secret)
         => /\ signing.first.canonicalString = signing.second.canonicalString
            /\ signing.first.signature = signing.second.signature
    /\ Cardinality(ValuesChanged) = 1
         => /\ signing.first.canonicalString # signing.second.canonicalString
            /\ signing.first.signature # signing.second.signature

(* Two uploads one second apart. *)
C19_Witness ==
  /\ BothSigned
  /\ ValuesChanged = {"date"}
  /\ signing.first.signature # signing.second.signature

C19_WitnessSame ==
  /\ BothSigned
  /\ signing.a = signing.b
  /\ signing.first.signature = signing.second.signature
  /\ signing.first.signature # <<>>

(* The ACL header is the value that changed. *)
C19_WitnessHeader ==
  /\ BothSigned
  /\ ValuesChanged = {"ossHeaders"}
  /\ signing.a.acl = <<"private">> /\ signing.b.acl = <<>>
  /\ signing.first.signature # signing.second.signature

(* A file without a type signs as application/octet-stream does. *)
C19_WitnessDefaultType ==
  /\ BothSigned
  /\ signing.a.type = <<>> /\ signing.b.type = <<"application/octet-stream">>
  /\ signing.first.signature = signing.second.signature

(* ------------------------------------------------------------------ *)
(* C20: the claims of the worker loops                                  *)
(* ------------------------------------------------------------------ *)
(* The claims of ordinal i in request r: the worker and the place in its *)
(* list of claims.                                                      *)
ClaimsOf(r, i) ==
  {c \in UNION {{<<w, k>> : k \in DOMAIN workers[r][w].claimed} : w \in DOMAIN workers[r]} :
     workers[r][c[1]].claimed[c[2]] = i}

AllClaims(r) ==
  UNION {{<<w, k>> : k \in DOMAIN workers[r][w].claimed} : w \in DOMAIN workers[r]}

Dispatched(r) == DOMAIN workers[r] # {}

C20_WitnessOneWorker ==
  \E r \in Reqs :
    /\ pool[r] = "resolved"
    /\ DOMAIN workers[r] = {1}
    /\ workers[r][1].claimed = <<0, 1>>

(* A request of one worker failed: the other ordinal is never claimed. *)
C20_WitnessFailed ==
  \E r \in Reqs :
    /\ pool[r] = "rejected"
    /\ DOMAIN workers[r] = {1}
    /\ workers[r][1].state = "failed"
    /\ ClaimsOf(r, 1) = {}

(* ------------------------------------------------------------------ *)
(* C21: the speech requests in flight                                   *)
(* ------------------------------------------------------------------ *)
(* The workers of request r whose speech request has not been answered. *)
InFlight(r) == {w \in DOMAIN workers[r] : workers[r][w].state = "waiting"}

(* transcribeSegments has made its workers for two or more segments. *)
PoolMade(r) == pool[r] \in {"pending", "resolved", "rejected"}

(* a <= b of two numbers, false when one of them is NaN. *)
AtMost(a, b) == a # NaN /\ b # NaN /\ a <= b

(* C21: while and after a dispatch of two or more segments, the number  *)
(* of speech requests in flight is at most                              *)
(* min(AUDIO_SEGMENT_CONCURRENCY, N), and AUDIO_SEGMENT_CONCURRENCY is  *)
(* at least 1.                                                          *)
C21_InFlightBounded ==
  \A r \in Reqs :
    PoolMade(r) =>
      /\ AtMost(1, AUDIO_SEGMENT_CONCURRENCY)
      /\ AtMost(Cardinality(InFlight(r)), MathMin(AUDIO_SEGMENT_CONCURRENCY, SegmentCount(r)))

(* What holds for every setting: a numeric setting gives a concurrency  *)
(* of at least 1 and at most min(concurrency, N) requests in flight; a  *)
(* setting that is no number gives NaN and no request at all.           *)
InFlightBoundedOrNoWorker ==
  \A r \in Reqs :
    PoolMade(r) =>
      IF concurrencyEnv = NaN
      THEN AUDIO_SEGMENT_CONCURRENCY = NaN /\ workers[r] = <<>> /\ calls[r].speech = 0
      ELSE /\ AUDIO_SEGMENT_CONCURRENCY >= 1
           /\ Cardinality(InFlight(r)) <= Min(AUDIO_SEGMENT_CONCURRENCY, SegmentCount(r))

(* Two requests in flight at once. *)
TwoInFlight == \E r \in Reqs : PoolMade(r) /\ Cardinality(InFlight(r)) = 2

(* With a setting that is no number the route answers 200 with an empty *)
(* transcript and has sent nothing to the speech API.                   *)
EmptyTranscriptWithoutRequest ==
  \E r \in Reqs :
    /\ concurrencyEnv = NaN
    /\ SegmentCount(r) >= 2
    /\ response[r].status = 200
    /\ response[r].transcript = <<>>
    /\ calls[r].speech = 0

(* ------------------------------------------------------------------ *)
(* C22: claims after a failed speech request                            *)
(* ------------------------------------------------------------------ *)
(* C22: once a speech request of a dispatch of two or more segments has *)
(* failed (Promise.all has rejected), no step claims a further ordinal  *)
(* or sends a further speech request for that transcription.            *)
C22_NoClaimAfterFailure ==
  [][\A r \in Reqs :
       pool[r] = "rejected" =>
         /\ calls'[r].speech = calls[r].speech
         /\ \A w \in DOMAIN workers[r] : workers'[r][w].claimed = workers[r][w].claimed]_vars

(* What does hold after the failure: the worker whose request failed    *)
(* claims nothing more, and the outcome stays the error.                *)
FailedWorkerStops ==
  [][\A r \in Reqs : \A w \in DOMAIN workers[r] :
       workers[r][w].state = "failed" =>
         /\ workers'[r][w] = workers[r][w]
         /\ outcome'[r].status = 500]_vars

(* Worker 1 failed on ordinal 0; worker 2 then finished ordinal 1 and   *)
(* sent ordinal 2.                                                      *)
ClaimedAfterFailure ==
  \E r \in Reqs :
    /\ pool[r] = "rejected"
    /\ DOMAIN workers[r] = {1, 2}
    /\ workers[r][1].state = "failed" /\ workers[r][1].claimed = <<0>>
    /\ workers[r][2].state = "waiting" /\ workers[r][2].claimed = <<1, 2>>
    /\ calls[r].speech = 3

(* ------------------------------------------------------------------ *)
(* C23: segmentAudioFile and its failures                               *)
(* ------------------------------------------------------------------ *)
SegmentationFailed(r) == faults[r] \cap {"mkdtemp", "segment"} # {}

(* segmentAudioFile has returned its list to POST. *)
SegmentationReturned(r) == Reached(r, "segmented")

(* C23: segmentAudioFile never raises; after any failure of it (making   *)
(* the temporary directory, the transcoder, listing or reading the       *)
(* segments) it has returned the one-element list of the file it was     *)
(* given.                                                                *)
C23_SegmentationNeverRaises ==
  \A r \in Reqs :
    /\ outcome[r].error # MsgMkdtemp
    /\ (SegmentationFailed(r) /\ pc[r] # "cleanup") =>
         /\ SegmentationReturned(r)
         /\ segmentedFiles[r] = <<optimizedFile[r]>>

(* What holds: a failure after the directory was made gives the list of  *)
(* the one file, and so does every run that has returned one file.       *)
SegmentationFallsBackInsideTry ==
  \A r \in Reqs :
    /\ ("segment" \in faults[r] /\ pc[r] # "cleanup") =>
         /\ SegmentationReturned(r)
         /\ segmentedFiles[r] = <<optimizedFile[r]>>
    /\ (SegmentationReturned(r) /\ Len(segmentedFiles[r]) = 1) =>
         segmentedFiles[r] = <<optimizedFile[r]>>

(* mkdtemp rejected: the request ends with 500 and that message. *)
MkdtempRaised ==
  \E r \in Reqs :
    /\ "mkdtemp" \in faults[r]
    /\ ~SegmentationReturned(r)
    /\ response[r].status = 500
    /\ response[r].error = MsgMkdtemp

(* ------------------------------------------------------------------ *)
(* C24: the temporary directory of segmentAudioFile                     *)
(* ------------------------------------------------------------------ *)
DirMade(r) == tempDirs[r].name # 0

(* segmentAudioFile is between mkdtemp and its return. *)
InSegmentation(r) == pc[r] \in {"segmenting", "cleanup"}

DirsAreOwn ==
  \A r, q \in Reqs : (r # q /\ DirMade(r) /\ DirMade(q)) => tempDirs[r].name # tempDirs[q].name

(* The list to return is in memory while the directory still exists. *)
ReadBeforeRemoval ==
  \A r \in Reqs :
    pc[r] = "cleanup" =>
      /\ tempDirs[r].exists
      /\ tempDirs[r].removals = 0
      /\ Len(segmentedFiles[r]) >= 1

(* C24: a directory that was made no longer exists once segmentAudioFile *)
(* has returned, whatever the path; no two requests have the same        *)
(* directory; the segments are in memory before the directory is removed.*)
C24_DirRemovedOnReturn ==
  /\ \A r \in Reqs : (DirMade(r) /\ ~InSegmentation(r)) => ~tempDirs[r].exists
  /\ DirsAreOwn
  /\ ReadBeforeRemoval

(* The same with the removal as the code makes it: once segmentAudioFile *)
(* has returned, rm was called once on the directory it made, and the    *)
(* directory exists afterwards only when that call failed; before the    *)
(* finally block rm was not called; without a directory rm is not called.*)
C24_DirRemovalAttemptedOnReturn ==
  /\ \A r \in Reqs :
       /\ (DirMade(r) /\ ~InSegmentation(r)) => tempDirs[r].removals = 1
       /\ (DirMade(r) /\ InSegmentation(r)) => (tempDirs[r].exists /\ tempDirs[r].removals = 0)
       /\ ~DirMade(r) => (tempDirs[r].removals = 0 /\ ~tempDirs[r].exists)
  /\ DirsAreOwn
  /\ ReadBeforeRemoval

(* Two requests segment at the same time; one has returned its segments *)
(* and its directory is gone, the other is still to clean up.           *)
C24_Witness ==
  /\ DirMade(1) /\ DirMade(2)
  /\ pc[1] = "transcribe" /\ Len(segmentedFiles[1]) = 2
  /\ ~tempDirs[1].exists /\ tempDirs[1].removals = 1
  /\ pc[2] = "cleanup" /\ tempDirs[2].exists

(* The transcoder failed and the removal failed too: the directory stays. *)
C24_WitnessLeft ==
  \E r \in Reqs :
    /\ "segment" \in faults[r]
    /\ pc[r] = "transcribe"
    /\ tempDirs[r].exists /\ tempDirs[r].removals = 1

(* ------------------------------------------------------------------ *)
(* C25: optimizeAudioForTranscription and its failures                  *)
(* ------------------------------------------------------------------ *)
(* The faults that raise to the catch block of POST. *)
RaisingFaults == {"fetch", "convert", "put", "mkdtemp", "speech"}

OptimizationReturned(r) == Reached(r, "optimized")

(* C25: optimizeAudioForTranscription never raises: an error outcome    *)
(* comes from a missing variable or from a failed fetch, conversion,    *)
(* upload, mkdtemp or speech request, never from the optimizing         *)
(* transcoder; when optimization is disabled or the file is   *)
(* not larger than the threshold (15MB), and when the transcoder failed,*)
(* the file it returns is the file it was given, and the request goes   *)
(* on to segmentation with it.                                          *)
C25_OptimizationNeverRaises ==
  \A r \in Reqs :
    /\ outcome[r].status = 500 =>
         (faults[r] \cap RaisingFaults # {} \/ outcome[r].error = MsgMissingEnv)
    /\ "optimize" \in faults[r] => OptimizationReturned(r)
    /\ OptimizationReturned(r) =>
         /\ \/ "AUDIO_OPTIMIZATION_ENABLED=false" \in environ
            \/ transcriptionFile[r].size <= 15 * 1024 * 1024
            \/ "optimize" \in faults[r]
            => optimizedFile[r] = transcriptionFile[r]
         /\ pc[r] \notin {"optimize", "optimizing"}

(* The optimizing transcoder failed and the request was transcribed     *)
(* from the file as it was.                                             *)
C25_Witness ==
  \E r \in Reqs :
    /\ "optimize" \in faults[r]
    /\ optimizedFile[r] = transcriptionFile[r]
    /\ optimizedFile[r].size > AUDIO_OPTIMIZATION_THRESHOLD
    /\ response[r].status = 200

C25_WitnessOptimized ==
  \E r \in Reqs :
    /\ OptimizationReturned(r)
    /\ optimizedFile[r] # transcriptionFile[r]
    /\ optimizedFile[r].bytes = "optimized"

(* ------------------------------------------------------------------ *)
(* C26: the order of the shapes in extractApimartTranscript             *)
(* ------------------------------------------------------------------ *)
Extracted == extraction.pc = "done"

(* The texts of the shapes the claim lists, in its order; <<>> where a  *)
(* shape is absent.                                                     *)
TextOf(field) == IF field = {} THEN <<>> ELSE TheString(field)

ClaimedShapes(data) ==
  IF data.null THEN <<>>
  ELSE <<TextOf(data.str), TextOf(data.text), TextOf(data.transcription), TextOf(data.result),
         TextOf(data.data.str), TextOf(data.data.text), TextOf(data.data.transcription),
         TextOf(data.data.result),
         IF Len(data.choices) > 0 THEN TextOf(data.choices[1].content) ELSE <<>>,
         JoinWith(SegmentTexts(data.segments), <<"\n">>)>>

FirstNonEmpty(texts) ==
  IF \A i \in DOMAIN texts : texts[i] = <<>> THEN <<>>
  ELSE texts[CHOOSE i \in DOMAIN texts : texts[i] # <<>> /\ \A k \in 1..(i - 1) : texts[k] = <<>>]

(* C26: the text returned is the first non-empty one among the body as  *)
(* a string, .text, .transcription, .result, the same under .data,      *)
(* choices[0].message.content and the segments joined by a newline; it  *)
(* is empty only when none of them holds text.                          *)
C26_FirstNonEmptyShape ==
  Extracted => extraction.transcript = FirstNonEmpty(ClaimedShapes(extraction.data))

(* The shapes as the code tries them: a field counts when it is a       *)
(* string, empty or not; under .data there is no .result; the segments  *)
(* are tried last and only when nothing before was a string.            *)
TriedFields(data) ==
  <<data.str, data.text, data.transcription, data.result>>
    \o (IF data.data.truthy THEN <<data.data.str, data.data.text, data.data.transcription>>
        ELSE <<>>)
    \o (IF Len(data.choices) > 0 THEN <<data.choices[1].content>> ELSE <<>>)

FirstStringShape ==
  Extracted =>
    LET data  == extraction.data
        tried == TriedFields(data)
    IN  IF data.null THEN extraction.transcript = <<>>
        ELSE IF \E i \in DOMAIN tried : tried[i] # {}
        THEN extraction.transcript =
               TheString(tried[CHOOSE i \in DOMAIN tried :
                                 tried[i] # {} /\ \A k \in 1..(i - 1) : tried[k] = {}])
        ELSE extraction.transcript = JoinWith(SegmentTexts(data.segments), <<"\n">>)

(* An empty .text hides the text of .transcription. *)
EmptyTextHidesTranscription ==
  /\ Extracted
  /\ extraction.data.text = {<<>>}
  /\ extraction.data.transcription = {<<"transcription">>}
  /\ extraction.transcript = <<>>

(* .data.result is not read. *)
NestedResultNotRead ==
  /\ Extracted
  /\ extraction.data.data.result = {<<"data.result">>}
  /\ \A i \in DOMAIN TriedFields(extraction.data) : TriedFields(extraction.data)[i] = {}
  /\ extraction.data.segments = <<>>
  /\ extraction.transcript = <<>>

(* The segments are joined when nothing before them is a string. *)
SegmentsJoined ==
  /\ Extracted
  /\ extraction.transcript = <<"segment", "\n", "content">>

(* ------------------------------------------------------------------ *)
(* The timeout of the probes of GET /transcription/health                *)
(* ------------------------------------------------------------------ *)
HealthProbes == {"oss", "apimart"}

(* The deadline of probe p has passed before the dependency had sent its *)
(* whole answer.                                                         *)
LateAnswer(p) == health.link.call[p].elapsed /\ health.link.call[p].unanswered

(* The probe was aborted and its link reports a failure. *)
AbortedAndFailed(p) ==
  health.link.call[p].aborted /\ health.link[p].set /\ ~health.link[p].ok

(* The response of the endpoint holds the three statuses. *)
ResponseHoldsStatuses ==
  health.link.pc = "done" =>
    health.link.env.set /\ health.link.oss.set /\ health.link.apimart.set

(* C27, as claimed: a probe whose dependency has not completely answered *)
(* (headers and body) when PROBE_TIMEOUT_MS have passed is aborted and   *)
(* reports ok:false, and the response of the endpoint holds the env, oss *)
(* and apimart statuses.                                                 *)
C27_ProbeBoundedByTimeout ==
  /\ \A p \in HealthProbes : LateAnswer(p) => AbortedAndFailed(p)
  /\ ResponseHoldsStatuses

(* What holds instead: the timeout bounds the await of fetch only. The   *)
(* HEAD probe of OSS has no body to read and is bounded as claimed; the  *)
(* probe of APIMart is aborted if and only if the deadline passes before *)
(* the headers of the response are there, and once they are there the    *)
(* timer is cleared and nothing bounds the reading of the body.          *)
ProbeBoundedUntilHeaders ==
  /\ LateAnswer("oss") => AbortedAndFailed("oss")
  /\ \A p \in HealthProbes :
       LET call == health.link.call[p]
       IN /\ call.aborted <=> call.timer = "fired"
          /\ call.aborted => /\ health.link[p] = LinkFailed("service", FALSE)
                             /\ call.pc = "settled"
          /\ LateAnswer(p) /\ ~call.aborted => p = "apimart" /\ call.timer = "cleared"
          /\ call.pc = "reading" => call.timer = "cleared"
  /\ ResponseHoldsStatuses

(* The deadline of the APIMart probe passed while the body was being     *)
(* read, and the endpoint has answered that APIMart is ok.               *)
BodyReadPastDeadline ==
  /\ health.link.pc = "done"
  /\ LateAnswer("apimart") /\ ~health.link.call["apimart"].aborted
  /\ health.link.apimart.ok /\ health.link.ok

(* The deadline has passed and the APIMart probe still reads the body. *)
StillReadingPastDeadline ==
  health.link.call["apimart"].pc = "reading" /\ health.link.call["apimart"].elapsed

(* Both probes were aborted by their timers and the endpoint has answered. *)
BothProbesAborted ==
  /\ health.link.pc = "done"
  /\ \A p \in HealthProbes : AbortedAndFailed(p)
  /\ ~health.link.ok

(* ------------------------------------------------------------------ *)
(* A failing history insert                                              *)
(* ------------------------------------------------------------------ *)
(* The insert of the request was attempted and failed. *)
InsertFailed(r) == "insert" \in faults[r]

(* While the insert is awaited the flag is set; after a failed insert   *)
(* the request has ended with the response of the outcome of its         *)
(* pipeline, with one attempt and without a row.                         *)
InsertFailureState ==
  \A r \in Reqs :
    /\ pc[r] = "inserting" => recordedHistory[r] /\ calls[r].insert = 1
    /\ InsertFailed(r) =>
         /\ pc[r] = "done"
         /\ recordedHistory[r] /\ calls[r].insert = 1
         /\ RowsOf(r) = {}
         /\ response[r].status = outcome[r].status
         /\ response[r].error = outcome[r].error
         /\ outcome[r].status = 200 =>
              /\ response[r].transcript = outcome[r].transcript
              /\ response[r].audioUrl = uploadResult[r].url
              /\ response[r].objectKey = uploadResult[r].key

(* The await of the insert changes neither the outcome of the pipeline  *)
(* nor the number of attempts, and the request ends with it.             *)
InsertStep ==
  \A r \in Reqs :
    pc[r] = "inserting" =>
      /\ outcome'[r] = outcome[r]
      /\ calls'[r].insert = calls[r].insert
      /\ pc'[r] \in {"inserting", "done"}

(* C28: a failing history insert never changes the outcome of the       *)
(* request: the flag is set before the insert is attempted, the error of *)
(* the insert is swallowed, the status and the body of the response are  *)
(* those of the outcome of the pipeline (200 with the transcript stays   *)
(* 200), and the insert is not attempted again.                          *)
C28_InsertFailureKeepsOutcome == []InsertFailureState /\ [][InsertStep]_vars

(* The insert failed after a pipeline that gave a transcript: 200. *)
C28_Witness ==
  \E r \in Reqs :
    /\ pc[r] = "done" /\ InsertFailed(r)
    /\ response[r].status = 200 /\ response[r].transcript # <<>>
    /\ calls[r].insert = 1

(* The insert failed after a pipeline that failed: 500 with its message. *)
C28_WitnessFailed ==
  \E r \in Reqs :
    /\ pc[r] = "done" /\ InsertFailed(r)
    /\ response[r].status = 500 /\ response[r].error # ""
    /\ "speech" \in faults[r]

(* ------------------------------------------------------------------ *)
(* Termination of a dispatch of several segments                         *)
(* ------------------------------------------------------------------ *)
(* transcribeSegments has made its workers and awaits Promise.all. *)
Dispatching(r) == SegmentCount(r) >= 2 /\ pool[r] = "pending"

(* Every worker has left its loop or was rejected, and Promise.all is    *)
(* settled: transcribeSegments has returned or raised.                   *)
DispatchEnded(r) ==
  /\ pool[r] \in {"resolved", "rejected"}
  /\ \A w \in DOMAIN workers[r] : workers[r][w].state \in {"done", "failed"}
  /\ pool[r] = "resolved" <=> "speech" \notin faults[r]

(* A worker that has left its loop had claimed an ordinal past the last  *)
(* segment, and every segment had been claimed by then.                  *)
ExitsPastTheEnd(r) ==
  \A w \in DOMAIN workers[r] :
    workers[r][w].state = "done" =>
      /\ workers[r][w].current >= SegmentCount(r)
      /\ cursor[r] > workers[r][w].current
      /\ {workers[r][c[1]].claimed[c[2]] : c \in AllClaims(r)} = 0..(SegmentCount(r) - 1)

(* A worker that has left its loop or was rejected does nothing more. *)
StaysOut ==
  \A r \in Reqs : \A w \in DOMAIN workers[r] :
    workers[r][w].state \in {"done", "failed"} => workers'[r][w] = workers[r][w]

(* C29: when every speech request that was sent is answered, a dispatch  *)
(* of several segments terminates: every worker leaves its loop once the *)
(* cursor has passed the number of segments (or is rejected), and        *)
(* transcribeSegments returns when every request succeeded and raises    *)
(* when one failed; no worker waits or loops after that.                 *)
C29_DispatchTerminates ==
  /\ \A r \in Reqs : Dispatching(r) ~> DispatchEnded(r)
  /\ [](\A r \in Reqs : ExitsPastTheEnd(r))
  /\ [][StaysOut]_vars

(* Three segments over two workers, every request answered with text. *)
C29_Witness ==
  \E r \in Reqs :
    /\ DispatchEnded(r) /\ pool[r] = "resolved"
    /\ SegmentCount(r) = 3 /\ DOMAIN workers[r] = {1, 2}
    /\ outcome[r].status = 200

(* A request failed, and the other worker went on to the end of the list. *)
C29_WitnessRejected ==
  \E r \in Reqs :
    /\ DispatchEnded(r) /\ pool[r] = "rejected"
    /\ \E w \in DOMAIN workers[r] : workers[r][w].state = "done"
    /\ outcome[r].status = 500

(* The setting of the concurrency is not a number: no worker, no request. *)
C29_WitnessNoWorker ==
  \E r \in Reqs :
    /\ DispatchEnded(r) /\ SegmentCount(r) >= 2
    /\ DOMAIN workers[r] = {} /\ calls[r].speech = 0

(* ------------------------------------------------------------------ *)
(* The source of a request that has a file part and a fileUrl            *)
(* ------------------------------------------------------------------ *)
HasFilePart(r) == form[r].fileEntry # NoFile
HasFileUrl(r) == form[r].remoteUrl # NoUrl

(* C30: when the form has a file part, with or without a fileUrl, the    *)
(* file part is the source and the remote URL is never fetched; the URL  *)
(* is fetched, once, only when there is no file part; and the source     *)
(* chosen then is the one that decides later: an upload is PUT and never *)
(* linked, a link is never PUT.                                          *)
C30_FilePartBeforeUrl ==
  \A r \in Reqs :
    /\ HasFilePart(r) =>
         /\ fileSource[r] = "upload"
         /\ file[r] = form[r].fileEntry
         /\ calls[r].fetch = 0
    /\ calls[r].fetch <= 1
    /\ calls[r].fetch = 1 <=> ~HasFilePart(r) /\ HasFileUrl(r)
    /\ fileSource[r] = "url" <=> calls[r].fetch = 1
    /\ calls[r].put <= 1
    /\ calls[r].put = 1 => fileSource[r] = "upload" /\ putBody[r] = form[r].fileEntry
    /\ uploadResult[r].set =>
         IF fileSource[r] = "upload"
         THEN calls[r].put = 1 /\ uploadResult[r] = uploadToOSSResult(putBody[r])
         ELSE calls[r].put = 0 /\ uploadResult[r] = buildUploadResultFromUrl(form[r].remoteUrl)

(* A request with both parts has ended: the file was PUT, nothing fetched. *)
C30_Witness ==
  \E r \in Reqs :
    /\ pc[r] = "done"
    /\ HasFilePart(r) /\ HasFileUrl(r)
    /\ uploadResult[r].set
    /\ calls[r].put = 1 /\ calls[r].fetch = 0

(* A request with a fileUrl only has ended: fetched and linked, no PUT. *)
C30_WitnessUrl ==
  \E r \in Reqs :
    /\ pc[r] = "done"
    /\ ~HasFilePart(r) /\ HasFileUrl(r)
    /\ uploadResult[r].set
    /\ calls[r].put = 0 /\ calls[r].fetch = 1

====
